---- MODULE Spec2Model ----
(***************************************************************************)
(* kurokiri: the process-isolated worker harness and prompt assembly of    *)
(* kuro.py, and the block traversal of the slide-deck and word-processing  *)
(* extractors.                                                             *)
(*                                                                         *)
(* Text is a sequence of string tokens; a file path is a sequence of       *)
(* one-character strings, so that splitext and lower() are computed and    *)
(* not assumed.  Time is abstract: the timeout of rQ.get may fire whenever *)
(* the queue is empty.                                                     *)
(***************************************************************************)
EXTENDS Integers, Sequences, FiniteSets, TLC

\* ------------------------------------------------------------------ bounds
MaxFiles == 2

\* ------------------------------------------------------------- input sets
NL == "\n"

Prompts == {"p1", "p2"}

Paths ==
  { <<"a", ".", "p", "d", "f">>,
    <<"b", ".", "P", "D", "F">>,
    <<"c", ".", "d", "o", "c", "x">>,
    <<"d", ".", "x", "l", "s", "x">>,
    <<"e", ".", "p", "p", "t", "x">>,
    <<"f", ".", "m", "p", "3">>,
    <<"g", ".", "p", "n", "g">>,
    <<"h", ".", "J", "p", "g">>,
    <<"i", ".", "x", "l", "s", "m">>,
    <<"j", ".", "t", "x", "t">>,
    <<".", "p", "d", "f">>,
    <<"k">> }

Texts == {"mdA", "mdB"}

FileLists == UNION { [1..n -> Paths] : n \in 0..MaxFiles }

NoCode == 99
SIGTERM == 15

\* ------------------------------------------------------- string helpers
LowerChar(c) ==
  CASE c = "P" -> "p" [] c = "D" -> "d" [] c = "F" -> "f"
    [] c = "J" -> "j" [] c = "G" -> "g" [] c = "E" -> "e"
    [] c = "X" -> "x" [] c = "L" -> "l" [] c = "S" -> "s"
    [] c = "M" -> "m" [] c = "N" -> "n" [] c = "O" -> "o"
    [] c = "C" -> "c" [] c = "T" -> "t"
    [] OTHER -> c

Lower(s) == [k \in 1..Len(s) |-> LowerChar(s[k])]

\* str.rfind: the greatest index holding c, 0 when there is none
RFind(s, c) ==
  LET hits == {k \in 1..Len(s) : s[k] = c}
  IN IF hits = {} THEN 0 ELSE CHOOSE k \in hits : \A j \in hits : j <= k

\* os.path.splitext(p)[1]: from the last dot of the last path component,
\* unless that component holds nothing but dots before it
SplitExt(p) ==
  LET sepIndex == RFind(p, "/")
      dotIndex == RFind(p, ".")
  IN IF dotIndex > sepIndex
        /\ \E k \in (sepIndex + 1)..(dotIndex - 1) : p[k] # "."
     THEN SubSeq(p, dotIndex, Len(p))
     ELSE <<>>

\* ------------------------------------------------------------- dispatch
DispatchAll(ext) ==
  CASE ext = <<".", "p", "d", "f">> -> "pdfWorker"
    [] ext = <<".", "d", "o", "c", "x">> -> "docxWorker"
    [] ext = <<".", "x", "l", "s", "x">> -> "xlsxWorker"
    [] ext = <<".", "p", "p", "t", "x">> -> "pptxWorker"
    [] ext = <<".", "m", "p", "3">> -> "audioWorker"
    [] ext \in {<<".", "p", "n", "g">>, <<".", "j", "p", "g">>,
                <<".", "j", "p", "e", "g">>} -> "imageWorker"
    [] OTHER -> "pdfWorker"

\* the if/elif chain of processInputToPrompt; "none" is the else branch
Dispatch(ext) ==
  CASE ext = <<".", "p", "d", "f">> -> "pdfWorker"
    [] ext = <<".", "d", "o", "c", "x">> -> "docxWorker"
    [] ext = <<".", "x", "l", "s", "x">> -> "xlsxWorker"
    [] ext = <<".", "p", "p", "t", "x">> -> "pptxWorker"
    [] ext = <<".", "m", "p", "3">> -> "audioWorker"
    [] ext \in {<<".", "p", "n", "g">>, <<".", "j", "p", "g">>,
                <<".", "j", "p", "e", "g">>} -> "imageWorker"
    [] OTHER -> "none"

WorkerFor(file) == Dispatch(Lower(SplitExt(file)))

\* the first piece put into md by each branch
Banner(w, file) ==
  CASE w = "pdfWorker" -> <<"PDF File: ">> \o file \o <<NL>>
    [] w = "docxWorker" -> <<"DOCX File: ">> \o file \o <<NL>>
    [] w = "xlsxWorker" -> <<"XLSX File: ">> \o file \o <<NL>>
    [] w = "pptxWorker" -> <<"PPTX File: ">> \o file \o <<NL>>
    [] w = "audioWorker" -> <<"Audio File: ">> \o file \o <<NL>>
    [] w = "imageWorker" -> <<"Image ">> \o file \o <<" Details:", NL>>
    [] OTHER -> <<>>

TwoNewlines == <<NL, NL>>

\* line 112: the "\n\n\n\n" that ends each file's piece
FourNewlines == <<NL, NL, NL, NL>>

\* ------------------------------------------------------------------ state
VARIABLES
  prompt,       \* input['prompt']
  files,        \* input['files']
  opc,          \* position of processInputToPrompt
  idx,          \* 1-based position of the for loop over inputFiles
  finalPrompt,  \* the text assembled so far
  oerr,         \* the exception that left processInputToPrompt, if any
  hpc,          \* position of multiProcessStarter
  rQ,           \* the result queue of the current call
  result,       \* local variable result
  alive,        \* local variable alive
  herr,         \* the exception multiProcessStarter raised, if any
  proc,         \* the worker process started for each file
  extout,       \* what the extractor of each file's worker did
  outcome,      \* how the call of multiProcessStarter for each file ended
  unit,         \* which extractor walks a logical unit: "pptx", "docx", "none"
  upc,          \* position of that extractor
  shapes,       \* pptx: slide.shapes, groups not yet flattened
  si,           \* pptx: position in the flattened shape stream
  bullet_lines, \* pptx: extract_slide_content's bullet_lines
  tables_md,    \* pptx: extract_slide_content's tables_md
  subtitles,    \* pptx: extract_slide_content's subtitles
  notes,        \* pptx: the lines of the slide's speaker notes
  body,         \* docx: the block items of the document body
  bi,           \* docx: position in the body
  prev_was_list,\* docx: local variable prev_was_list
  page_lines,   \* pdf: the lines of the page, as get_page_lines returns them
  pli,          \* pdf: position in page_lines
  para_parts,   \* pdf: local variable para_parts
  current_block_id, \* pdf: local variable current_block_id
  prev_plain,   \* pdf: local variable prev_plain
  rows,         \* xlsx: the rows read from the sheet
  out_lines,    \* all: local variable out_lines
  fn,           \* which function is applied to an input on its own
  fpc,          \* how many times it has been applied
  arg,          \* the function's arguments
  ret           \* the values it returned, in order

kvars == <<prompt, files, opc, idx, finalPrompt, oerr, hpc, rQ, result, alive,
           herr, proc, extout, outcome>>

pptxvars == <<shapes, si, bullet_lines, tables_md, subtitles, notes>>

docxvars == <<body, bi, prev_was_list>>

pdfvars == <<page_lines, pli, para_parts, current_block_id, prev_plain>>

uvars == <<unit, upc, pptxvars, docxvars, pdfvars, rows, out_lines>>

fvars == <<fn, fpc, arg, ret>>

vars == <<kvars, uvars, fvars>>

Jobs == 1..(MaxFiles + 1)

\* no function is applied on its own
NoFn ==
  /\ fn = "none"
  /\ fpc = 0
  /\ arg = <<>>
  /\ ret = <<>>

NoUnit ==
  /\ unit = "none"
  /\ upc = "none"
  /\ shapes = <<>>
  /\ si = 0
  /\ bullet_lines = <<>>
  /\ tables_md = <<>>
  /\ subtitles = <<>>
  /\ notes = <<>>
  /\ body = <<>>
  /\ bi = 0
  /\ prev_was_list = FALSE
  /\ page_lines = <<>>
  /\ pli = 0
  /\ para_parts = <<>>
  /\ current_block_id = 0 - 1
  /\ prev_plain = "none"
  /\ rows = <<>>
  /\ out_lines = <<>>

NoQueue == [st |-> "none", items |-> <<>>, joined |-> FALSE]
NoResult == [kind |-> "none", val |-> "none"]
NoErr == [kind |-> "none", msg |-> "none", code |-> NoCode]
Unborn == [st |-> "unborn", code |-> NoCode]

\* Process.is_alive()
IsAlive(p) == p.st \in {"running", "delivered", "hung"}

Init ==
  /\ prompt \in Prompts
  /\ files \in FileLists
  /\ opc = "entry"
  /\ idx = 1
  /\ finalPrompt = <<>>
  /\ oerr = NoErr
  /\ hpc = "idle"
  /\ rQ = NoQueue
  /\ result = NoResult
  /\ alive = FALSE
  /\ herr = NoErr
  /\ proc = [i \in Jobs |-> Unborn]
  /\ extout = [i \in Jobs |-> NoResult]
  /\ outcome = [i \in Jobs |-> NoErr]
  /\ NoUnit
  /\ NoFn

hvars == <<hpc, rQ, result, alive, herr, proc, extout, outcome>>

\* ------------------------------------------------- processInputToPrompt
\* lines 84-87: the preamble, and the files header only for a non-empty list
Enter ==
  /\ opc = "entry"
  /\ finalPrompt' = <<"User Prompt: ", prompt, NL, NL>>
                    \o (IF Len(files) > 0
                        THEN <<"User Uploaded Files: ", NL, NL>> ELSE <<>>)
  /\ opc' = "loop"
  /\ UNCHANGED <<prompt, files, idx, oerr>>
  /\ UNCHANGED hvars
  /\ UNCHANGED uvars
  /\ UNCHANGED fvars

\* lines 110-112: the else branch, md stays empty
SkipUnsupported ==
  /\ opc = "loop"
  /\ idx <= Len(files)
  /\ WorkerFor(files[idx]) = "none"
  /\ finalPrompt' = finalPrompt \o <<>> \o FourNewlines
  /\ idx' = idx + 1
  /\ UNCHANGED <<prompt, files, opc, oerr>>
  /\ UNCHANGED hvars
  /\ UNCHANGED uvars
  /\ UNCHANGED fvars

\* lines 92-109 up to the call, and lines 60-61 of the callee
CallStarter ==
  /\ opc = "loop"
  /\ idx <= Len(files)
  /\ WorkerFor(files[idx]) # "none"
  /\ opc' = "call"
  /\ hpc' = "start"
  /\ rQ' = [st |-> "open", items |-> <<>>, joined |-> FALSE]
  /\ result' = NoResult
  /\ alive' = FALSE
  /\ herr' = NoErr
  /\ UNCHANGED <<prompt, files, idx, finalPrompt, oerr, proc, extout, outcome>>
  /\ UNCHANGED uvars
  /\ UNCHANGED fvars

\* `md += multiProcessStarter(...)` and line 112; adding the tuple of an
\* error marker to a str raises TypeError
Resume ==
  /\ opc = "call"
  /\ hpc = "returned"
  /\ IF result.kind = "text"
     THEN /\ finalPrompt' = finalPrompt
                            \o Banner(WorkerFor(files[idx]), files[idx])
                            \o <<result.val>> \o FourNewlines
          /\ idx' = idx + 1
          /\ opc' = "loop"
          /\ oerr' = oerr
     ELSE /\ oerr' = [kind |-> "TypeError", msg |-> "str+tuple", code |-> NoCode]
          /\ opc' = "raised"
          /\ UNCHANGED <<finalPrompt, idx>>
  /\ hpc' = "idle"
  /\ UNCHANGED <<prompt, files, rQ, result, alive, herr, proc, extout, outcome>>
  /\ UNCHANGED uvars
  /\ UNCHANGED fvars

\* an exception of multiProcessStarter is not caught by processInputToPrompt
Propagate ==
  /\ opc = "call"
  /\ hpc = "raised"
  /\ oerr' = herr
  /\ opc' = "raised"
  /\ hpc' = "idle"
  /\ UNCHANGED <<prompt, files, idx, finalPrompt, rQ, result, alive, herr,
                 proc, extout, outcome>>
  /\ UNCHANGED uvars
  /\ UNCHANGED fvars

\* line 113
ReturnPrompt ==
  /\ opc = "loop"
  /\ idx > Len(files)
  /\ opc' = "returned"
  /\ UNCHANGED <<prompt, files, idx, finalPrompt, oerr>>
  /\ UNCHANGED hvars
  /\ UNCHANGED uvars
  /\ UNCHANGED fvars

ovars == <<prompt, files, opc, idx, finalPrompt, oerr>>

\* --------------------------------------------------- multiProcessStarter
TimeoutWordSwapped(a) == IF a THEN "exited" ELSE "hung"

\* line 70: {'hung' if alive else 'exited'}
TimeoutWord(a) == IF a THEN "hung" ELSE "exited"

ExitAlwaysOk(code) == TRUE

\* line 77: the test p.exitcode != 0, negated
ExitOk(code) == code = 0

AfterResultEarlyReturn == "returned"

\* where control goes after the finally clause when get returned: line 76
AfterResult == "join"

\* line 62, the process starts
StartOk ==
  /\ hpc = "start"
  /\ proc' = [proc EXCEPT ![idx] = [st |-> "running", code |-> NoCode]]
  /\ hpc' = "get"
  /\ UNCHANGED <<rQ, result, alive, herr, extout, outcome>>
  /\ UNCHANGED ovars
  /\ UNCHANGED uvars
  /\ UNCHANGED fvars

\* line 62, p.start() raises (the operating system refuses the process);
\* the call is outside the try statement, so the finally clause does not run
StartFails ==
  /\ hpc = "start"
  /\ herr' = [kind |-> "OSError", msg |-> "start", code |-> NoCode]
  /\ outcome' = [outcome EXCEPT ![idx] =
                   [kind |-> "StartFailed", msg |-> "start", code |-> NoCode]]
  /\ hpc' = "raised"
  /\ UNCHANGED <<rQ, result, alive, proc, extout>>
  /\ UNCHANGED ovars
  /\ UNCHANGED uvars
  /\ UNCHANGED fvars

\* line 64, a message is there
GetResult ==
  /\ hpc = "get"
  /\ rQ.items # <<>>
  /\ result' = Head(rQ.items)
  /\ rQ' = [rQ EXCEPT !.items = Tail(rQ.items)]
  /\ hpc' = "finally"
  /\ UNCHANGED <<alive, herr, proc, extout, outcome>>
  /\ UNCHANGED ovars
  /\ UNCHANGED uvars
  /\ UNCHANGED fvars

\* line 64, get raises an exception that is not Empty (the message cannot be
\* unpickled, the parent is interrupted): no handler matches, the finally
\* clause closes the queue and the exception leaves the function; lines
\* 66-68 and 76 do not run
GetFails ==
  /\ hpc = "get"
  /\ \/ rQ' = [rQ EXCEPT !.st = "closed", !.joined = TRUE]
     \/ /\ rQ.items # <<>>
        /\ rQ' = [rQ EXCEPT !.items = Tail(rQ.items), !.st = "closed",
                             !.joined = TRUE]
  /\ herr' = [kind |-> "Exception", msg |-> "get", code |-> NoCode]
  /\ outcome' = [outcome EXCEPT ![idx] =
                   [kind |-> "GetFailed", msg |-> "get", code |-> NoCode]]
  /\ hpc' = "raised"
  /\ UNCHANGED <<result, alive, proc, extout>>
  /\ UNCHANGED ovars
  /\ UNCHANGED uvars
  /\ UNCHANGED fvars

\* lines 64-66: get raises Empty and the handler reads p.is_alive()
TimeoutFires ==
  /\ hpc = "get"
  /\ rQ.items = <<>>
  /\ alive' = IsAlive(proc[idx])
  /\ hpc' = "terminate"
  /\ UNCHANGED <<rQ, result, herr, proc, extout, outcome>>
  /\ UNCHANGED ovars
  /\ UNCHANGED uvars
  /\ UNCHANGED fvars

\* line 67: SIGTERM; a live worker dies of it unless it ignores the signal
Terminate ==
  /\ hpc = "terminate"
  /\ \/ /\ IsAlive(proc[idx])
        /\ proc' = [proc EXCEPT ![idx] = [st |-> "exited", code |-> 0 - SIGTERM]]
     \/ /\ IsAlive(proc[idx])
        /\ proc[idx].st = "hung"
        /\ proc' = proc
     \/ /\ ~IsAlive(proc[idx])
        /\ proc' = proc
  /\ hpc' = "joinT"
  /\ UNCHANGED <<rQ, result, alive, herr, extout, outcome>>
  /\ UNCHANGED ovars
  /\ UNCHANGED uvars
  /\ UNCHANGED fvars

\* lines 68-74: join returns once the worker has exited, the RuntimeError is
\* raised and the finally clause closes the queue
RaiseTimedOut ==
  /\ hpc = "joinT"
  /\ proc[idx].st = "exited"
  /\ herr' = [kind |-> "RuntimeError", msg |-> TimeoutWord(alive), code |-> NoCode]
  /\ outcome' = [outcome EXCEPT ![idx] =
                   [kind |-> "TimedOut", msg |-> TimeoutWord(alive), code |-> NoCode]]
  /\ rQ' = [rQ EXCEPT !.st = "closed", !.joined = TRUE]
  /\ hpc' = "raised"
  /\ UNCHANGED <<result, alive, proc, extout>>
  /\ UNCHANGED ovars
  /\ UNCHANGED uvars
  /\ UNCHANGED fvars

\* lines 72-74 after a successful get
FinallyClose ==
  /\ hpc = "finally"
  /\ rQ' = [rQ EXCEPT !.st = "closed", !.joined = TRUE]
  /\ hpc' = AfterResult
  /\ outcome' = IF AfterResult = "returned"
                THEN [outcome EXCEPT ![idx] =
                        [kind |-> "Succeeded", msg |-> "none", code |-> proc[idx].code]]
                ELSE outcome
  /\ UNCHANGED <<result, alive, herr, proc, extout>>
  /\ UNCHANGED ovars
  /\ UNCHANGED uvars
  /\ UNCHANGED fvars

\* lines 76-81: join returns once the worker has exited; then the exit code
JoinAndCheck ==
  /\ hpc = "join"
  /\ proc[idx].st = "exited"
  /\ IF ExitOk(proc[idx].code)
     THEN /\ hpc' = "returned"
          /\ outcome' = [outcome EXCEPT ![idx] =
                           [kind |-> "Succeeded", msg |-> "none", code |-> proc[idx].code]]
          /\ herr' = herr
     ELSE /\ hpc' = "raised"
          /\ herr' = [kind |-> "RuntimeError", msg |-> "exited with code",
                      code |-> proc[idx].code]
          /\ outcome' = [outcome EXCEPT ![idx] =
                           [kind |-> "Crashed", msg |-> "exited with code",
                            code |-> proc[idx].code]]
  /\ UNCHANGED <<rQ, result, alive, proc, extout>>
  /\ UNCHANGED ovars
  /\ UNCHANGED uvars
  /\ UNCHANGED fvars

\* ------------------------------------------------------------ the workers
WorkerPutsTextAndGoesOn(i) ==
  /\ proc[i].st = "running"
  /\ \E t \in Texts :
       /\ rQ' = [rQ EXCEPT !.items = Append(rQ.items, [kind |-> "text", val |-> t])]
       /\ extout' = [extout EXCEPT ![i] = [kind |-> "text", val |-> t]]
  /\ UNCHANGED <<hpc, result, alive, herr, outcome, proc>>
  /\ UNCHANGED ovars
  /\ UNCHANGED uvars
  /\ UNCHANGED fvars

\* lines 13-14: the extractor returns md and the worker puts it
WorkerPutsText(i) ==
  /\ proc[i].st = "running"
  /\ \E t \in Texts :
       /\ rQ' = [rQ EXCEPT !.items = Append(rQ.items, [kind |-> "text", val |-> t])]
       /\ extout' = [extout EXCEPT ![i] = [kind |-> "text", val |-> t]]
  /\ proc' = [proc EXCEPT ![i].st = "delivered"]
  /\ UNCHANGED <<hpc, result, alive, herr, outcome>>
  /\ UNCHANGED ovars
  /\ UNCHANGED uvars
  /\ UNCHANGED fvars

\* lines 15-16: the extractor raises an Exception, the worker puts the marker
WorkerPutsErr(i) ==
  /\ proc[i].st = "running"
  /\ rQ' = [rQ EXCEPT !.items = Append(rQ.items, [kind |-> "err", val |-> "Exc"])]
  /\ extout' = [extout EXCEPT ![i] = [kind |-> "raise", val |-> "Exc"]]
  /\ proc' = [proc EXCEPT ![i].st = "delivered"]
  /\ UNCHANGED <<hpc, result, alive, herr, outcome>>
  /\ UNCHANGED ovars
  /\ UNCHANGED uvars
  /\ UNCHANGED fvars

\* the extractor's main calls sys.exit(1) on a missing file, a malformed
\* container or a failed conversion: SystemExit is no Exception, so nothing
\* is put and the process exits with code 1
WorkerSysExit(i) ==
  /\ proc[i].st = "running"
  /\ extout' = [extout EXCEPT ![i] = [kind |-> "sysexit", val |-> "1"]]
  /\ proc' = [proc EXCEPT ![i] = [st |-> "exited", code |-> 1]]
  /\ UNCHANGED <<hpc, rQ, result, alive, herr, outcome>>
  /\ UNCHANGED ovars
  /\ UNCHANGED uvars
  /\ UNCHANGED fvars

\* the process is killed from outside, before or after its put
WorkerCrashes(i) ==
  /\ proc[i].st \in {"running", "delivered"}
  /\ proc' = [proc EXCEPT ![i] = [st |-> "exited", code |-> 0 - 11]]
  /\ extout' = IF proc[i].st = "running"
               THEN [extout EXCEPT ![i] = [kind |-> "crash", val |-> "11"]]
               ELSE extout
  /\ UNCHANGED <<hpc, rQ, result, alive, herr, outcome>>
  /\ UNCHANGED ovars
  /\ UNCHANGED uvars
  /\ UNCHANGED fvars

\* the worker stops making progress, before or after its put
WorkerHangs(i) ==
  /\ proc[i].st \in {"running", "delivered"}
  /\ proc' = [proc EXCEPT ![i].st = "hung"]
  /\ extout' = IF proc[i].st = "running"
               THEN [extout EXCEPT ![i] = [kind |-> "hang", val |-> "none"]]
               ELSE extout
  /\ UNCHANGED <<hpc, rQ, result, alive, herr, outcome>>
  /\ UNCHANGED ovars
  /\ UNCHANGED uvars
  /\ UNCHANGED fvars

\* the worker function returns and the process exits with code 0
WorkerExits(i) ==
  /\ proc[i].st = "delivered"
  /\ proc' = [proc EXCEPT ![i] = [st |-> "exited", code |-> 0]]
  /\ UNCHANGED <<hpc, rQ, result, alive, herr, extout, outcome>>
  /\ UNCHANGED ovars
  /\ UNCHANGED uvars
  /\ UNCHANGED fvars

HarnessNext ==
  \/ Enter \/ SkipUnsupported \/ CallStarter \/ Resume \/ Propagate
  \/ ReturnPrompt
  \/ StartOk \/ StartFails \/ GetResult \/ TimeoutFires \/ Terminate
  \/ RaiseTimedOut \/ FinallyClose \/ JoinAndCheck

WorkerNext ==
  \/ \E i \in Jobs : WorkerPutsText(i)
  \/ \E i \in Jobs : WorkerPutsErr(i)
  \/ \E i \in Jobs : WorkerSysExit(i)
  \/ \E i \in Jobs : WorkerCrashes(i)
  \/ \E i \in Jobs : WorkerHangs(i)
  \/ \E i \in Jobs : WorkerExits(i)

Next ==
  \/ Enter \/ SkipUnsupported \/ CallStarter \/ Resume \/ Propagate
  \/ ReturnPrompt
  \/ StartOk \/ StartFails \/ GetResult \/ TimeoutFires \/ Terminate
  \/ RaiseTimedOut \/ FinallyClose \/ JoinAndCheck
  \/ \E i \in Jobs : WorkerPutsText(i)
  \/ \E i \in Jobs : WorkerPutsErr(i)
  \/ \E i \in Jobs : WorkerSysExit(i)
  \/ \E i \in Jobs : WorkerCrashes(i)
  \/ \E i \in Jobs : WorkerHangs(i)
  \/ \E i \in Jobs : WorkerExits(i)

Spec == Init /\ [][Next]_vars

\* the program with the failure of the queue's get added to its steps
FaultNext == Next \/ GetFails

FaultSpec == Init /\ [][FaultNext]_vars

\* the parent runs its next statement whenever it is not blocked, and a
\* worker that is neither hung nor exited takes its next step
FairSpec == Spec /\ WF_vars(HarnessNext) /\ WF_vars(WorkerNext)

\* =========================================== blocks of one logical unit
MaxShapes == 3
MaxBlocks == 3

\* one line of out_lines: what it renders (k), the position of the source
\* block in traversal order (src), the paragraph inside it (j), and whether
\* the string is "" (empty)
Line(k, src, j) == [k |-> k, src |-> src, j |-> j, empty |-> FALSE]
Blank == [k |-> "blank", src |-> 0, j |-> 0, empty |-> TRUE]

\* ---------------------------------------------------------------- pptx
\* a text-bearing shape holds paragraphs; TRUE marks one with text
LeafShapes ==
  { [kind |-> "title", paras |-> <<TRUE>>, sub |-> <<>>],
    [kind |-> "skip", paras |-> <<TRUE>>, sub |-> <<>>],
    [kind |-> "picture", paras |-> <<>>, sub |-> <<>>],
    [kind |-> "subtitle", paras |-> <<TRUE>>, sub |-> <<>>],
    [kind |-> "subtitle", paras |-> <<FALSE>>, sub |-> <<>>],
    [kind |-> "table", paras |-> <<TRUE>>, sub |-> <<>>],
    [kind |-> "table", paras |-> <<>>, sub |-> <<>>],
    [kind |-> "text", paras |-> <<TRUE>>, sub |-> <<>>],
    [kind |-> "text", paras |-> <<FALSE, TRUE>>, sub |-> <<>>],
    [kind |-> "text", paras |-> <<TRUE, TRUE>>, sub |-> <<>>] }

TableShape == [kind |-> "table", paras |-> <<TRUE>>, sub |-> <<>>]
TextShape == [kind |-> "text", paras |-> <<TRUE>>, sub |-> <<>>]

GroupShapes ==
  { [kind |-> "group", paras |-> <<>>, sub |-> g] :
      g \in { <<TableShape, TextShape>>, <<TextShape, TableShape>> } }

SlideShapes == UNION { [1..n -> LeafShapes \cup GroupShapes] : n \in 0..MaxShapes }

NoteSets == { <<>>, <<TRUE>>, <<TRUE, FALSE, TRUE>> }

\* iter_all_shapes: the shapes in order, a group replaced by its members
RECURSIVE iter_all_shapes(_)
iter_all_shapes(shs) ==
  IF shs = <<>> THEN <<>>
  ELSE (IF Head(shs).kind = "group"
        THEN iter_all_shapes(Head(shs).sub)
        ELSE <<Head(shs)>>)
       \o iter_all_shapes(Tail(shs))

Stream == iter_all_shapes(shapes)

\* slide.shapes.title: the first title placeholder, 0 when there is none
TitleShapeId ==
  LET ts == {k \in 1..Len(Stream) : Stream[k].kind = "title"}
  IN IF ts = {} THEN 0 ELSE CHOOSE k \in ts : \A m \in ts : k <= m

\* text_frame_to_bullets: one line per paragraph that has text
RECURSIVE text_frame_to_bullets(_, _, _)
text_frame_to_bullets(paras, src, j) ==
  IF j > Len(paras) THEN <<>>
  ELSE (IF paras[j] THEN <<Line("bullet", src, j)>> ELSE <<>>)
       \o text_frame_to_bullets(paras, src, j + 1)

PrependLines(acc, lines) == lines \o acc

\* list.extend / list.append of the three collections
ExtendLines(acc, lines) == acc \o lines

\* extract_slide_content, one iteration of the loop over the shape stream
ExtractShape ==
  /\ unit = "pptx"
  /\ upc = "extract"
  /\ si <= Len(Stream)
  /\ LET sh == Stream[si]
     IN /\ subtitles' =
             IF sh.kind = "subtitle" /\ \E j \in 1..Len(sh.paras) : sh.paras[j]
             THEN ExtendLines(subtitles, <<Line("subtitle", si, 1)>>)
             ELSE subtitles
        /\ tables_md' =
             IF sh.kind = "table" /\ sh.paras # <<>>
             THEN ExtendLines(tables_md, <<Line("table", si, 1)>>)
             ELSE tables_md
        /\ bullet_lines' =
             IF sh.kind = "text" \/ (sh.kind = "title" /\ si # TitleShapeId)
             THEN ExtendLines(bullet_lines, text_frame_to_bullets(sh.paras, si, 1))
             ELSE bullet_lines
  /\ si' = si + 1
  /\ UNCHANGED <<unit, upc, shapes, notes, docxvars, pdfvars, rows, out_lines>>
  /\ UNCHANGED kvars
  /\ UNCHANGED fvars

\* lines 428-432: one quoted line per non-blank line of the notes
RECURSIVE NoteLines(_, _, _)
NoteLines(ns, src, n) ==
  IF n > Len(ns) THEN <<>>
  ELSE (IF ns[n] THEN <<Line("note", src, n)>> ELSE <<>>)
       \o NoteLines(ns, src, n + 1)

\* lines 418-421: a label, the table and an empty line for each table
RECURSIVE TableLines(_, _)
TableLines(tabs, ti) ==
  IF ti > Len(tabs) THEN <<>>
  ELSE <<Line("tablelabel", tabs[ti].src, ti), tabs[ti], Blank>>
       \o TableLines(tabs, ti + 1)

\* main, lines 392-433: the slide header, then subtitles, bullet lines,
\* tables and notes, each group closed by an empty line
RenderSlide ==
  /\ unit = "pptx"
  /\ upc = "extract"
  /\ si > Len(Stream)
  /\ out_lines' =
       out_lines \o <<Line("header", 0, 0), Blank>>
       \o subtitles \o (IF subtitles # <<>> THEN <<Blank>> ELSE <<>>)
       \o bullet_lines \o (IF bullet_lines # <<>> THEN <<Blank>> ELSE <<>>)
       \o TableLines(tables_md, 1)
       \o (IF \E n \in 1..Len(notes) : notes[n]
           THEN <<Line("noteslabel", 0, 0)>>
                \o NoteLines(notes, Len(Stream) + 1, 1)
                \o <<Blank>>
           ELSE <<>>)
  /\ upc' = "done"
  /\ UNCHANGED <<unit, pptxvars, docxvars, pdfvars, rows>>
  /\ UNCHANGED kvars
  /\ UNCHANGED fvars

\* ---------------------------------------------------------------- docx
\* a block item of the body: a table (rows = 0 renders as ""), or a
\* paragraph with its heading level (0: none), inline text and list level
\* (-1: no numbering properties)
BodyBlocks ==
  { [tag |-> "tbl", rows |-> 1, heading |-> 0, inline |-> FALSE, list |-> 0 - 1],
    [tag |-> "tbl", rows |-> 0, heading |-> 0, inline |-> FALSE, list |-> 0 - 1],
    [tag |-> "p", rows |-> 0, heading |-> 1, inline |-> TRUE, list |-> 0 - 1],
    [tag |-> "p", rows |-> 0, heading |-> 2, inline |-> FALSE, list |-> 0 - 1],
    [tag |-> "p", rows |-> 0, heading |-> 0, inline |-> FALSE, list |-> 0 - 1],
    [tag |-> "p", rows |-> 0, heading |-> 0, inline |-> TRUE, list |-> 0 - 1],
    [tag |-> "p", rows |-> 0, heading |-> 0, inline |-> TRUE, list |-> 0],
    [tag |-> "p", rows |-> 0, heading |-> 0, inline |-> TRUE, list |-> 1] }

Bodies == UNION { [1..n -> BodyBlocks] : n \in 0..MaxBlocks }

\* `if out_lines and out_lines[-1] != "": out_lines.append("")`
EnsureBlank(ol) ==
  IF ol # <<>> /\ ~ol[Len(ol)].empty THEN Append(ol, Blank) ELSE ol

\* convert_with_python_docx, one iteration of the loop over the block items
DocxBlock ==
  /\ unit = "docx"
  /\ upc = "walk"
  /\ bi <= Len(body)
  /\ LET b == body[bi]
     IN CASE b.tag = "tbl" ->
               /\ out_lines' =
                    EnsureBlank(out_lines)
                    \o <<[Line("table", bi, 1) EXCEPT !.empty = (b.rows = 0)], Blank>>
               /\ prev_was_list' = FALSE
          [] b.tag = "p" /\ ~b.inline /\ b.heading = 0 ->
               /\ out_lines' = EnsureBlank(out_lines)
               /\ prev_was_list' = FALSE
          [] b.tag = "p" /\ b.heading # 0 ->
               /\ out_lines' =
                    EnsureBlank(out_lines) \o <<Line("heading", bi, 1), Blank>>
               /\ prev_was_list' = FALSE
          [] b.tag = "p" /\ b.inline /\ b.heading = 0 /\ b.list >= 0 ->
               /\ out_lines' = Append(out_lines, Line("list", bi, 1))
               /\ prev_was_list' = TRUE
          [] OTHER ->
               /\ out_lines' =
                    (IF prev_was_list THEN EnsureBlank(out_lines) ELSE out_lines)
                    \o <<Line("para", bi, 1), Blank>>
               /\ prev_was_list' = FALSE
  /\ bi' = bi + 1
  /\ UNCHANGED <<unit, upc, pptxvars, body, pdfvars, rows>>
  /\ UNCHANGED kvars
  /\ UNCHANGED fvars

\* line 381: the loop is over; the join and rstrip keep the order of lines
DocxJoin ==
  /\ unit = "docx"
  /\ upc = "walk"
  /\ bi > Len(body)
  /\ upc' = "done"
  /\ UNCHANGED <<unit, pptxvars, docxvars, pdfvars, rows, out_lines>>
  /\ UNCHANGED kvars
  /\ UNCHANGED fvars

\* ----------------------------------------------------------------- pdf
MaxLines == 3

\* a line of the page as the render pass sees it: rep, a recurring header or
\* footer; empty, blank plain text; list and listempty, a bullet with and
\* without content; heading; para, an ordinary line, with whether its plain
\* text ends with a hyphen (hy) and starts with a lowercase letter (lc)
LineTypes ==
  { [kind |-> "rep", hy |-> FALSE, lc |-> FALSE],
    [kind |-> "empty", hy |-> FALSE, lc |-> FALSE],
    [kind |-> "list", hy |-> FALSE, lc |-> FALSE],
    [kind |-> "listempty", hy |-> FALSE, lc |-> FALSE],
    [kind |-> "heading", hy |-> FALSE, lc |-> FALSE],
    [kind |-> "para", hy |-> FALSE, lc |-> FALSE],
    [kind |-> "para", hy |-> TRUE, lc |-> TRUE],
    [kind |-> "para", hy |-> FALSE, lc |-> TRUE] }

PageLine(t, b) == [kind |-> t.kind, hy |-> t.hy, lc |-> t.lc, block_id |-> b]

\* get_page_lines numbers the blocks upwards, so block_id never decreases
Pages ==
  { pg \in UNION { [1..n -> {PageLine(t, b) : t \in LineTypes, b \in 0..1}] :
                     n \in 0..MaxLines } :
      \A k \in 1..(Len(pg) - 1) : pg[k].block_id <= pg[k + 1].block_id }

\* flush_paragraph: the parts joined into one line, then an empty line
flush_paragraph(parts) ==
  IF parts # <<>>
  THEN <<Line("para", parts[1].src, parts[Len(parts)].src), Blank>>
  ELSE <<>>

\* lines 337-353: out_lines, the page heading and the per-page locals
PdfBegin ==
  /\ unit = "pdf"
  /\ upc = "begin"
  /\ out_lines' = <<Blank, Line("pageheading", 0, 0), Blank>>
  /\ current_block_id' = 0 - 1
  /\ para_parts' = <<>>
  /\ prev_plain' = "none"
  /\ upc' = "lines"
  /\ UNCHANGED <<unit, pptxvars, docxvars, page_lines, pli, rows>>
  /\ UNCHANGED kvars
  /\ UNCHANGED fvars

\* pdf_to_markdown, one iteration of the loop over page_lines, lines 363-434
PdfLine ==
  /\ unit = "pdf"
  /\ upc = "lines"
  /\ pli <= Len(page_lines)
  /\ LET ln == page_lines[pli]
         newblock == current_block_id # 0 - 1 /\ ln.block_id # current_block_id
         flushed == IF newblock THEN flush_paragraph(para_parts) ELSE <<>>
         parts == IF newblock THEN <<>> ELSE para_parts
         pp == IF newblock THEN "none" ELSE prev_plain
     IN IF ln.kind = "rep"
        THEN UNCHANGED <<out_lines, para_parts, current_block_id, prev_plain>>
        ELSE
          /\ current_block_id' = ln.block_id
          /\ CASE ln.kind = "empty" ->
                    /\ out_lines' = out_lines \o flushed \o flush_paragraph(parts)
                    /\ para_parts' = <<>>
                    /\ prev_plain' = "none"
               [] ln.kind = "listempty" ->
                    /\ out_lines' = out_lines \o flushed \o flush_paragraph(parts)
                    /\ para_parts' = <<>>
                    /\ prev_plain' = pp
               [] ln.kind = "list" ->
                    /\ out_lines' = out_lines \o flushed \o flush_paragraph(parts)
                                    \o <<Line("list", pli, pli)>>
                    /\ para_parts' = <<>>
                    /\ prev_plain' = "none"
               [] ln.kind = "heading" ->
                    /\ out_lines' = out_lines \o flushed \o flush_paragraph(parts)
                                    \o <<Line("heading", pli, pli), Blank>>
                    /\ para_parts' = <<>>
                    /\ prev_plain' = "none"
               [] OTHER ->
                    /\ out_lines' = out_lines \o flushed
                    /\ para_parts' =
                         IF parts = <<>>
                         THEN <<[src |-> pli, glue |-> "first"]>>
                         ELSE IF pp = "hyphen" /\ ln.lc
                              THEN Append(parts, [src |-> pli, glue |-> "joined"])
                              ELSE Append(parts, [src |-> pli, glue |-> "space"])
                    /\ prev_plain' = IF ln.hy THEN "hyphen" ELSE "plain"
  /\ pli' = pli + 1
  /\ UNCHANGED <<unit, upc, pptxvars, docxvars, page_lines, rows>>
  /\ UNCHANGED kvars
  /\ UNCHANGED fvars

\* lines 436-439: the remainder is flushed at the end of the page
PdfEnd ==
  /\ unit = "pdf"
  /\ upc = "lines"
  /\ pli > Len(page_lines)
  /\ out_lines' = out_lines \o flush_paragraph(para_parts)
  /\ para_parts' = <<>>
  /\ upc' = "done"
  /\ UNCHANGED <<unit, pptxvars, docxvars, page_lines, pli, current_block_id,
                 prev_plain, rows>>
  /\ UNCHANGED kvars
  /\ UNCHANGED fvars

\* ---------------------------------------------------------------- xlsx
MaxRows == 3

\* a row as worksheet_to_rows returns it; a cell is its text after
\* escape_md_table_cell, and " " is blank but not empty
RowShapes ==
  { <<>>, <<"">>, <<" ">>, <<"x">>, <<"", " ">>, <<"", "x">>, <<"x", "">>,
    <<"x", "x">>, <<"x", " ", "x">> }

HasTextUnstripped(c) == c # ""

\* str.strip() of a cell is not empty
HasText(c) == c \notin {"", " "}

SheetRows == UNION { [1..n -> RowShapes] : n \in 0..MaxRows }

row_is_empty(r) == \A c \in 1..Len(r) : ~HasText(r[c])

Max(S) == CHOOSE x \in S : \A y \in S : y <= x

PadTo(r, n) == r \o [k \in 1..(n - Len(r)) |-> ""]

crop_rows_and_cols_FirstRowWidth(rs) ==
  LET filled == {ri \in 1..Len(rs) : ~row_is_empty(rs[ri])}
  IN IF filled = {} THEN <<>>
     ELSE LET last_non_empty_row == Max(filled)
              start_row == CHOOSE ri \in filled : \A q \in filled : ri <= q
              end_col == Len(rs[1])
          IN [k \in 1..(last_non_empty_row - start_row + 1) |->
                [src |-> start_row + k - 1,
                 cells |-> SubSeq(PadTo(rs[start_row + k - 1], end_col), 1, end_col)]]

\* crop_rows_and_cols(rows, keep_empty=False, max_rows=0, max_cols=0); each
\* kept row goes with its 1-based position in the sheet
crop_rows_and_cols(rs) ==
  LET filled == {ri \in 1..Len(rs) : ~row_is_empty(rs[ri])}
      cols == UNION { {ci \in 1..Len(rs[ri]) : HasText(rs[ri][ci])} :
                        ri \in 1..Len(rs) }
  IN IF filled = {} THEN <<>>
     ELSE LET last_non_empty_row == Max(filled)
              start_row == CHOOSE ri \in filled : \A q \in filled : ri <= q
              end_col == Max(cols)
          IN [k \in 1..(last_non_empty_row - start_row + 1) |->
                [src |-> start_row + k - 1,
                 cells |-> SubSeq(PadTo(rs[start_row + k - 1], end_col), 1, end_col)]]

\* rows_to_markdown(rows, first_row_is_header=True): header, separator, body
rows_to_markdown(cr) ==
  IF cr = <<>> THEN <<>>
  ELSE LET num_cols == Max({Len(cr[k].cells) : k \in 1..Len(cr)})
           synth == row_is_empty(cr[1].cells)
           rest == IF synth THEN cr ELSE Tail(cr)
       IN IF num_cols = 0 THEN <<>>
          ELSE <<(IF synth THEN Line("columns", 0, num_cols)
                  ELSE Line("row", cr[1].src, num_cols)),
                 Line("separator", 0, num_cols)>>
               \o [k \in 1..Len(rest) |-> Line("row", rest[k].src, num_cols)]

\* main, lines 325-343, for one sheet
RenderSheet ==
  /\ unit = "xlsx"
  /\ upc = "sheet"
  /\ LET cropped == crop_rows_and_cols(rows)
     IN out_lines' =
          IF cropped = <<>>
          THEN out_lines \o <<Line("sheetheading", 0, 0), Blank,
                              Line("nodata", 0, 0), Blank>>
          ELSE out_lines \o <<Line("sheetheading", 0, 0), Blank>>
               \o rows_to_markdown(cropped) \o <<Blank>>
  /\ upc' = "done"
  /\ UNCHANGED <<unit, pptxvars, docxvars, pdfvars, rows>>
  /\ UNCHANGED kvars
  /\ UNCHANGED fvars

\* ------------------------------------------------------- unit behaviours
NoHarness ==
  /\ prompt = "p1"
  /\ files = <<>>
  /\ opc = "none"
  /\ idx = 1
  /\ finalPrompt = <<>>
  /\ oerr = NoErr
  /\ hpc = "idle"
  /\ rQ = NoQueue
  /\ result = NoResult
  /\ alive = FALSE
  /\ herr = NoErr
  /\ proc = [i \in Jobs |-> Unborn]
  /\ extout = [i \in Jobs |-> NoResult]
  /\ outcome = [i \in Jobs |-> NoErr]

UnitInit ==
  /\ NoHarness
  /\ NoFn
  /\ unit \in {"pptx", "docx", "pdf", "xlsx"}
  /\ upc = (CASE unit = "pptx" -> "extract" [] unit = "docx" -> "walk"
              [] unit = "pdf" -> "begin" [] OTHER -> "sheet")
  /\ IF unit = "pptx" THEN shapes \in SlideShapes /\ notes \in NoteSets
                      ELSE shapes = <<>> /\ notes = <<>>
  /\ IF unit = "docx" THEN body \in Bodies ELSE body = <<>>
  /\ IF unit = "pdf" THEN page_lines \in Pages ELSE page_lines = <<>>
  /\ IF unit = "xlsx" THEN rows \in SheetRows ELSE rows = <<>>
  /\ si = 1
  /\ bi = 1
  /\ pli = 1
  /\ bullet_lines = <<>>
  /\ tables_md = <<>>
  /\ subtitles = <<>>
  /\ prev_was_list = FALSE
  /\ para_parts = <<>>
  /\ current_block_id = 0 - 1
  /\ prev_plain = "none"
  /\ out_lines = (IF unit \in {"pptx", "xlsx"} THEN <<Blank>> ELSE <<>>)

UnitNext ==
  \/ ExtractShape \/ RenderSlide \/ DocxBlock \/ DocxJoin
  \/ PdfBegin \/ PdfLine \/ PdfEnd \/ RenderSheet

UnitSpec == UnitInit /\ [][UnitNext]_vars

\* ==================================================== functions on their own
MaxText == 3

\* text is a sequence of one-character strings
Chars == {"\\", "*", "-", "|", "a"}

InputTexts == UNION { [1..n -> Chars] : n \in 0..MaxText }

\* chars of pdfExtract.md_escape and pptxExtract.md_escape: no '-'; the
\* grave accent is written "grave"
MdChars == {"grave", "*", "_", "{", "}", "[", "]", "(", ")", "#", "+", ".", "!", ">"}

\* chars of docxExtract.md_escape
MdCharsDocx == MdChars \cup {"-"}

\* text.replace("\\", "\\\\")
RECURSIVE ReplaceBackslash(_)
ReplaceBackslash(text) ==
  IF text = <<>> THEN <<>>
  ELSE (IF Head(text) = "\\" THEN <<"\\", "\\">> ELSE <<Head(text)>>)
       \o ReplaceBackslash(Tail(text))

\* re.sub(r"([%s])" % re.escape(chars), r"\\\1", text)
RECURSIVE ReSub(_, _)
ReSub(text, chars) ==
  IF text = <<>> THEN <<>>
  ELSE (IF Head(text) \in chars THEN <<"\\", Head(text)>> ELSE <<Head(text)>>)
       \o ReSub(Tail(text), chars)

md_escape_pdf_SubFirst(text) ==
  IF text = <<>> THEN <<>> ELSE ReplaceBackslash(ReSub(text, MdChars))

\* pdfExtract.md_escape(text)
md_escape_pdf(text) ==
  IF text = <<>> THEN <<>> ELSE ReSub(ReplaceBackslash(text), MdChars)

\* pptxExtract.md_escape(text, escape_pipes)
md_escape_pptx(text, escape_pipes) ==
  IF text = <<>> THEN <<>>
  ELSE ReSub(ReplaceBackslash(text),
             IF escape_pipes THEN MdChars \cup {"|"} ELSE MdChars)

md_escape_docx_NoBackslash(text, escape_pipes) ==
  IF text = <<>> THEN <<>>
  ELSE ReSub(text, IF escape_pipes THEN MdCharsDocx \cup {"|"} ELSE MdCharsDocx)

\* docxExtract.md_escape(text, escape_pipes)
md_escape_docx(text, escape_pipes) ==
  IF text = <<>> THEN <<>>
  ELSE ReSub(ReplaceBackslash(text),
             IF escape_pipes THEN MdCharsDocx \cup {"|"} ELSE MdCharsDocx)

EscapeFns == {"pdf.md_escape", "pptx.md_escape", "docx.md_escape"}

\* the text the next application works on
Latest == IF ret = <<>> THEN arg.text ELSE ret[Len(ret)]

\* md_escape applied to the text, and then to what it returned
MdEscape ==
  /\ fn \in EscapeFns
  /\ fpc < 2
  /\ ret' = Append(ret,
                   CASE fn = "pdf.md_escape" -> md_escape_pdf(Latest)
                     [] fn = "pptx.md_escape" ->
                          md_escape_pptx(Latest, arg.escape_pipes)
                     [] OTHER -> md_escape_docx(Latest, arg.escape_pipes))
  /\ fpc' = fpc + 1
  /\ UNCHANGED <<fn, arg>>
  /\ UNCHANGED <<kvars, uvars>>

\* ---------------------------------------------------------- pipe tables
\* " | ".join(cells)
RECURSIVE JoinCells(_)
JoinCells(cells) ==
  IF cells = <<>> THEN <<>>
  ELSE IF Len(cells) = 1 THEN cells
  ELSE <<Head(cells), " | ">> \o JoinCells(Tail(cells))

\* "| " + " | ".join(cells) + " |", as a sequence of pieces
PipeLine(cells) == <<"| ">> \o JoinCells(cells) \o <<" |">>

\* f"Column {i+1}" for the 0-based i, here for the 1-based k
ColumnName(k) ==
  CASE k = 1 -> "Column 1" [] k = 2 -> "Column 2" [] k = 3 -> "Column 3"
    [] OTHER -> "Column n"

NormalizeNoPad(rs, num_cols) == rs

\* every row filled on the right with "" up to num_cols cells
Normalize(rs, num_cols) == [k \in 1..Len(rs) |-> PadTo(rs[k], num_cols)]

\* header, separator and body as lines
TableLinesOf(hdr, rest, num_cols) ==
  <<PipeLine(hdr), PipeLine([k \in 1..num_cols |-> "---"])>>
  \o [k \in 1..Len(rest) |-> PipeLine(rest[k])]

\* docxExtract.table_to_markdown from `if not rows` on; rs is the list rows
table_to_markdown_docx(rs) ==
  IF rs = <<>> THEN <<>>
  ELSE LET max_cols == Max({Len(rs[k]) : k \in 1..Len(rs)})
           norm == Normalize(rs, max_cols)
       IN TableLinesOf(norm[1], Tail(norm), max_cols)

\* pptxExtract.table_to_markdown(table, header) from `if not rows` on
table_to_markdown_pptx_hdr(rs, header) ==
  IF rs = <<>> THEN <<>>
  ELSE LET num_cols == Max({Len(rs[k]) : k \in 1..Len(rs)})
           norm == Normalize(rs, num_cols)
       IN IF header /\ ~row_is_empty(norm[1])
          THEN TableLinesOf(norm[1], Tail(norm), num_cols)
          ELSE TableLinesOf([k \in 1..num_cols |-> ColumnName(k)], norm, num_cols)

\* pptxExtract.table_to_markdown(table, header=True)
table_to_markdown_pptx(rs) == table_to_markdown_pptx_hdr(rs, TRUE)

rows_to_markdown_hdr_FirstRow(rs, first_row_is_header) ==
  IF rs = <<>> THEN <<>>
  ELSE LET num_cols == Max({Len(rs[k]) : k \in 1..Len(rs)})
           norm == Normalize(rs, num_cols)
       IN IF num_cols = 0 THEN <<>>
          ELSE IF first_row_is_header
          THEN TableLinesOf(norm[1], Tail(norm), num_cols)
          ELSE TableLinesOf([k \in 1..num_cols |-> ColumnName(k)], norm, num_cols)

\* xlsxExtract.rows_to_markdown(rows, first_row_is_header), with the text of
\* every cell
rows_to_markdown_hdr(rs, first_row_is_header) ==
  IF rs = <<>> THEN <<>>
  ELSE LET num_cols == Max({Len(rs[k]) : k \in 1..Len(rs)})
           norm == Normalize(rs, num_cols)
       IN IF num_cols = 0 THEN <<>>
          ELSE IF first_row_is_header /\ ~row_is_empty(norm[1])
          THEN TableLinesOf(norm[1], Tail(norm), num_cols)
          ELSE TableLinesOf([k \in 1..num_cols |-> ColumnName(k)], norm, num_cols)

\* xlsxExtract.rows_to_markdown(rows, first_row_is_header=True)
rows_to_markdown_text(rs) == rows_to_markdown_hdr(rs, TRUE)

TableFns == {"docx.table_to_markdown", "pptx.table_to_markdown",
             "xlsx.rows_to_markdown"}

\* one of the three renderers applied to the rows; the word-processing one
\* takes no header flag
RenderTable ==
  /\ fn \in TableFns
  /\ fpc = 0
  /\ ret' = <<CASE fn = "docx.table_to_markdown" -> table_to_markdown_docx(arg.rows)
                [] fn = "pptx.table_to_markdown" ->
                     table_to_markdown_pptx_hdr(arg.rows, arg.header)
                [] OTHER -> rows_to_markdown_hdr(arg.rows, arg.header)>>
  /\ fpc' = 1
  /\ UNCHANGED <<fn, arg>>
  /\ UNCHANGED <<kvars, uvars>>

\* ------------------------------------------------------------- headings
\* font sizes in tenths of a point: the thresholds of a 10pt and a 20pt body
\* with their neighbours, a body-sized line and a very large one
SizeTenths ==
  UNION { {t - 1, t, t + 1} : t \in {118, 130, 145, 160, 180, 210} }
  \cup {100, 236, 260, 290, 420}

BodyTenths == {0, 100, 200}

\* `ratio >= t` for ratio = size / body_size and the threshold t in hundredths
RatioAtLeastStrict(size, body_size, t) == size * 100 > t * body_size

RatioAtLeast(size, body_size, t) == size * 100 >= t * body_size

\* heading_level_for_size(size, body_size); 0 stands for None
heading_level_for_size(size, body_size) ==
  IF body_size <= 0 THEN 0
  ELSE IF RatioAtLeast(size, body_size, 210) THEN 1
  ELSE IF RatioAtLeast(size, body_size, 180) THEN 2
  ELSE IF RatioAtLeast(size, body_size, 160) THEN 3
  ELSE IF RatioAtLeast(size, body_size, 145) THEN 4
  ELSE IF RatioAtLeast(size, body_size, 130) THEN 5
  ELSE IF RatioAtLeast(size, body_size, 118) THEN 6
  ELSE 0

\* heading_level_for_size applied to the next of the two (size, body) pairs
HeadingLevel ==
  /\ fn = "heading_level_for_size"
  /\ fpc < 2
  /\ ret' = Append(ret, heading_level_for_size(arg[fpc + 1].size,
                                               arg[fpc + 1].body))
  /\ fpc' = fpc + 1
  /\ UNCHANGED <<fn, arg>>
  /\ UNCHANGED <<kvars, uvars>>

\* ------------------------------------------------- pdf_to_markdown, texts
IsSpace(c) == c \in {" ", "\t"}

IsDigit(c) == c \in {"0", "1", "2", "3", "4", "5", "6", "7", "8", "9"}

\* [a-z]
IsLowerAZ(c) ==
  c \in {"a", "b", "c", "d", "e", "f", "g", "h", "i", "j", "k", "l", "m", "n",
         "o", "p", "q", "r", "s", "t", "u", "v", "w", "x", "y", "z"}

\* [a-z] under re.I
IsLetter(c) == IsLowerAZ(LowerChar(c))

\* str.lstrip(), str.rstrip(), str.strip()
RECURSIVE LStrip(_)
LStrip(t) == IF t # <<>> /\ (IsSpace(Head(t)) \/ Head(t) = NL) THEN LStrip(Tail(t)) ELSE t

RECURSIVE RStrip(_)
RStrip(t) ==
  IF t # <<>> /\ (IsSpace(t[Len(t)]) \/ t[Len(t)] = NL)
  THEN RStrip(SubSeq(t, 1, Len(t) - 1)) ELSE t

Strip(t) == LStrip(RStrip(t))

\* re.sub(r"\s+", " ", s): each run of whitespace becomes one space
RECURSIVE CollapseSpaces(_)
CollapseSpaces(t) ==
  IF t = <<>> THEN <<>>
  ELSE IF IsSpace(Head(t))
       THEN <<" ">> \o CollapseSpaces(LStrip(Tail(t)))
       ELSE <<Head(t)>> \o CollapseSpaces(Tail(t))

\* re.sub(r"\d+", "#", s): each run of digits becomes one '#'
RECURSIVE HashDigits(_)
HashDigits(t) ==
  IF t = <<>> THEN <<>>
  ELSE IF IsDigit(Head(t))
       THEN IF Len(t) > 1 /\ IsDigit(t[2]) THEN HashDigits(Tail(t))
            ELSE <<"#">> \o HashDigits(Tail(t))
       ELSE <<Head(t)>> \o HashDigits(Tail(t))

normalize_for_repeat(t) == HashDigits(CollapseSpaces(Lower(Strip(t))))

\* how many whitespace characters t starts with
LeadSpaces(t) == Len(t) - Len(LStrip(t))

\* the unordered-bullet glyphs of detect_bullet in the texts used here
BulletGlyphs == {"-", "*"}

\* the length matched at the start of t by the ordered-marker alternatives
\* `\(?(\d+|[a-z]{1,3}|[ivxlcdm]{1,6})[\.\)]\)?` (re.I), 0 when none matches;
\* the fully parenthesised alternatives match a subset of what this one does
OrderedMarker(t) ==
  LET open == IF t # <<>> /\ Head(t) = "(" THEN 1 ELSE 0
      lens == {n \in 1..6 :
                 /\ open + n + 1 <= Len(t)
                 /\ t[open + n + 1] \in {".", ")"}
                 /\ \/ \A k \in 1..n : IsDigit(t[open + k])
                    \/ n <= 3 /\ \A k \in 1..n : IsLetter(t[open + k])
                    \/ \A k \in 1..n :
                         LowerChar(t[open + k]) \in {"i", "v", "x", "l", "c", "d", "m"}}
  IN IF lens = {} THEN 0
     ELSE LET n == CHOOSE x \in lens : TRUE
              close == IF open + n + 2 <= Len(t) /\ t[open + n + 2] = ")"
                          /\ open + n + 3 <= Len(t) /\ IsSpace(t[open + n + 3])
                       THEN 1 ELSE 0
          IN open + n + 1 + close

\* detect_bullet(plain): (is_list, is_ordered, prefix_char_count_to_strip)
detect_bullet(plain) ==
  LET st == LStrip(plain)
      lead_ws == Len(plain) - Len(st)
      om == OrderedMarker(st)
  IN IF plain = <<>> THEN [is_list |-> FALSE, is_ordered |-> FALSE, skip |-> 0]
     ELSE IF Len(st) >= 2 /\ st[1] \in BulletGlyphs /\ IsSpace(st[2])
     THEN [is_list |-> TRUE, is_ordered |-> FALSE,
           skip |-> lead_ws + 1 + LeadSpaces(Tail(st))]
     ELSE IF om > 0 /\ om < Len(st) /\ IsSpace(st[om + 1])
     THEN [is_list |-> TRUE, is_ordered |-> TRUE,
           skip |-> lead_ws + om + LeadSpaces(SubSeq(st, om + 1, Len(st)))]
     ELSE [is_list |-> FALSE, is_ordered |-> FALSE, skip |-> 0]

\* render_span_to_md(text, bold, italic)
render_span_to_md(text, bold, italic) ==
  IF text = <<>> THEN <<>>
  ELSE LET e == md_escape_pdf(text)
       IN IF bold /\ italic THEN <<"*", "*", "*">> \o e \o <<"*", "*", "*">>
          ELSE IF bold THEN <<"*", "*">> \o e \o <<"*", "*">>
          ELSE IF italic THEN <<"*">> \o e \o <<"*">>
          ELSE e

\* render_spans_from_offset(spans, skip_chars) for a line of one span
render_spans_from_offset(ln, skip_chars) ==
  IF ln.plain = <<>> \/ Len(ln.plain) <= skip_chars THEN <<>>
  ELSE render_span_to_md(SubSeq(ln.plain, skip_chars + 1, Len(ln.plain)),
                         ln.bold, ln.italic)

\* strip_trailing_hyphen_md(s)
RECURSIVE SkipBack(_, _)
SkipBack(t, i) ==
  IF i >= 1 /\ t[i] \in {" ", "*", "_", "grave"} THEN SkipBack(t, i - 1) ELSE i

strip_trailing_hyphen_md_Keep(t) == t

strip_trailing_hyphen_md(t) ==
  IF t = <<>> THEN t
  ELSE LET i == SkipBack(t, Len(t))
       IN IF i >= 1 /\ t[i] = "-"
          THEN SubSeq(t, 1, i - 1) \o SubSeq(t, i + 1, Len(t))
          ELSE t

\* unify_size(size): to the nearest half point; sizes are in tenths
unify_size(size) == ((2 * size + 5) \div 10) * 5

compute_body_font_size_First(all_lines) ==
  IF all_lines = <<>> THEN 120 ELSE unify_size(all_lines[1].size_avg)

\* compute_body_font_size(all_lines): the unified size with the most
\* characters, the one seen first among equals; 12.0 when there is none
compute_body_font_size(all_lines) ==
  LET idxs == {k \in 1..Len(all_lines) : unify_size(all_lines[k].size_avg) > 0}
      weight(sz) == LET RECURSIVE Sum(_)
                        Sum(k) == IF k = 0 THEN 0
                                  ELSE Sum(k - 1)
                                       + (IF k \in idxs /\ unify_size(all_lines[k].size_avg) = sz
                                          THEN Max({1, Len(all_lines[k].plain)}) ELSE 0)
                    IN Sum(Len(all_lines))
      first(sz) == CHOOSE k \in idxs :
                     /\ unify_size(all_lines[k].size_avg) = sz
                     /\ \A j \in idxs : unify_size(all_lines[j].size_avg) = sz => k <= j
  IN IF idxs = {} THEN 120
     ELSE LET sizes == {unify_size(all_lines[k].size_avg) : k \in idxs}
          IN CHOOSE sz \in sizes :
               \A o \in sizes :
                 \/ weight(sz) > weight(o)
                 \/ weight(sz) = weight(o) /\ first(sz) <= first(o)

\* page.rect.height, the same for every page; y0 and y1 are in its units
ph == 100

\* `ln["y0"] <= top_cut` for top_cut = ph * 0.12
InTopZone(ln) == ln.y0 * 100 <= ph * 12

\* `ln["y1"] >= bot_cut` for bot_cut = ph * 0.88
InBotZone(ln) == ln.y1 * 100 >= ph * 88

\* lines 318-320: only a normalized text of 3 characters or more is counted
Counted(norm) == norm # <<>> /\ Len(norm) >= 3

\* int(round(0.5 * n)): Python rounds a half to the even neighbour
RoundHalf(n) ==
  IF n % 2 = 0 THEN n \div 2
  ELSE IF (n \div 2) % 2 = 0 THEN n \div 2 ELSE (n \div 2) + 1

\* all_lines_flat
RECURSIVE Flatten(_)
Flatten(doc) == IF doc = <<>> THEN <<>> ELSE Head(doc) \o Flatten(Tail(doc))

\* lines 314-324 over all pages: top_counts[norm] and bot_counts[norm]
top_counts(doc, norm) ==
  LET all == Flatten(doc)
  IN Cardinality({k \in 1..Len(all) :
                    /\ normalize_for_repeat(all[k].plain) = norm
                    /\ Counted(norm)
                    /\ InTopZone(all[k])})

bot_counts(doc, norm) ==
  LET all == Flatten(doc)
  IN Cardinality({k \in 1..Len(all) :
                    /\ normalize_for_repeat(all[k].plain) = norm
                    /\ Counted(norm)
                    /\ ~InTopZone(all[k])
                    /\ InBotZone(all[k])})

InRepsTopAnyPages(doc, norm) ==
  top_counts(doc, norm) >= Max({2, RoundHalf(Len(doc))})

\* lines 330-335, as membership tests
InRepsTop(doc, norm) ==
  /\ Len(doc) >= 3
  /\ top_counts(doc, norm) >= Max({2, RoundHalf(Len(doc))})

InRepsBot(doc, norm) ==
  /\ Len(doc) >= 3
  /\ bot_counts(doc, norm) >= Max({2, RoundHalf(Len(doc))})

\* "".join(para_parts)
RECURSIVE Concat(_)
Concat(parts) == IF parts = <<>> THEN <<>> ELSE Head(parts) \o Concat(Tail(parts))

\* flush_paragraph() on the loop state st
FlushParagraph(st) ==
  IF st.para_parts # <<>>
  THEN [st EXCEPT !.out_lines = @ \o <<Strip(Concat(st.para_parts)), <<>>>>,
                  !.para_parts = <<>>]
  ELSE st

\* int(round(max(0.0, d / 18.0))), then clamped to 0..8
IndentLevel(d) ==
  LET q == d \div 18
      r == d % 18
      n == IF d <= 0 THEN 0
           ELSE IF r < 9 THEN q ELSE IF r > 9 THEN q + 1
           ELSE IF q % 2 = 0 THEN q ELSE q + 1
  IN IF n > 8 THEN 8 ELSE n

\* "#" * n, "  " * n
Repeat(c, n) == [k \in 1..n |-> c]

\* the 1-based page number of f"## Page {pi + 1}"
Digit(n) ==
  CASE n = 1 -> "1" [] n = 2 -> "2" [] n = 3 -> "3" [] n = 4 -> "4"
    [] n = 5 -> "5" [] n = 6 -> "6" [] OTHER -> "n"

PageHeading(n) == <<"#", "#", " ", "P", "a", "g", "e", " ", Digit(n)>>

\* lines 363-434: one iteration of `for ln in page_lines`
RenderLine(doc, body_size, left_base, ln, st) ==
  LET norm == normalize_for_repeat(ln.plain)
      s1 == IF st.current_block_id = 0 - 1
            THEN [st EXCEPT !.current_block_id = ln.block_id]
            ELSE IF ln.block_id # st.current_block_id
            THEN [FlushParagraph(st) EXCEPT !.current_block_id = ln.block_id,
                                            !.prev_plain = <<>>]
            ELSE st
      plain == Strip(ln.plain)
      db == detect_bullet(ln.plain)
      lvl == heading_level_for_size(ln.size_avg, body_size)
      rendered == Strip(render_spans_from_offset(ln, 0))
  IN IF InTopZone(ln) /\ InRepsTop(doc, norm) THEN st
     ELSE IF InBotZone(ln) /\ InRepsBot(doc, norm) THEN st
     ELSE IF plain = <<>>
     THEN [FlushParagraph(s1) EXCEPT !.prev_plain = <<>>]
     ELSE IF db.is_list
     THEN LET content_md == Strip(render_spans_from_offset(ln, db.skip))
              s2 == FlushParagraph(s1)
          IN IF content_md = <<>> THEN s2
             ELSE [s2 EXCEPT
                     !.out_lines =
                        Append(@, Repeat(" ", 2 * IndentLevel(ln.x0 - left_base))
                                  \o (IF db.is_ordered THEN <<"1", ".", " ">>
                                      ELSE <<"-", " ">>)
                                  \o content_md),
                     !.prev_plain = <<>>]
     ELSE IF lvl # 0 /\ Len(plain) <= 160
     THEN [FlushParagraph(s1) EXCEPT
             !.out_lines = @ \o <<Repeat("#", lvl) \o <<" ">> \o rendered, <<>>>>,
             !.prev_plain = <<>>]
     ELSE IF rendered = <<>> THEN s1
     ELSE IF s1.para_parts = <<>>
     THEN [s1 EXCEPT !.para_parts = <<rendered>>, !.prev_plain = ln.plain]
     ELSE LET prev_plain_eff == RStrip(s1.prev_plain)
              this_plain == LStrip(ln.plain)
              n == Len(s1.para_parts)
          IN IF /\ prev_plain_eff # <<>>
                /\ prev_plain_eff[Len(prev_plain_eff)] = "-"
                /\ this_plain # <<>>
                /\ IsLowerAZ(Head(this_plain))
             THEN [s1 EXCEPT
                     !.para_parts =
                        Append([@ EXCEPT ![n] = strip_trailing_hyphen_md(@)],
                               LStrip(rendered)),
                     !.prev_plain = ln.plain]
             ELSE [s1 EXCEPT
                     !.para_parts = Append(@, <<" ">> \o LStrip(rendered)),
                     !.prev_plain = ln.plain]

RECURSIVE RenderLines(_, _, _, _, _)
RenderLines(doc, body_size, left_base, lines, st) ==
  IF lines = <<>> THEN st
  ELSE RenderLines(doc, body_size, left_base, Tail(lines),
                   RenderLine(doc, body_size, left_base, Head(lines), st))

\* lines 341-437: the second pass from page pi on; out is out_lines
RECURSIVE RenderPages(_, _, _, _)
RenderPages(doc, body_size, pi, out) ==
  IF pi > Len(doc) THEN out
  ELSE LET pls == doc[pi]
           left_base == IF pls = <<>> THEN 0
                        ELSE CHOOSE x \in {pls[k].x0 : k \in 1..Len(pls)} :
                               \A k \in 1..Len(pls) : x <= pls[k].x0
           st0 == [out_lines |-> out \o <<PageHeading(pi), <<>>>>,
                   current_block_id |-> 0 - 1,
                   para_parts |-> <<>>,
                   prev_plain |-> <<>>]
           st1 == FlushParagraph(RenderLines(doc, body_size, left_base, pls, st0))
       IN RenderPages(doc, body_size, pi + 1, st1.out_lines)

\* "\n".join(out_lines)
RECURSIVE JoinLines(_)
JoinLines(ls) ==
  IF ls = <<>> THEN <<>>
  ELSE IF Len(ls) = 1 THEN ls[1]
  ELSE ls[1] \o <<NL>> \o JoinLines(Tail(ls))

\* pdf_to_markdown(input_path) with the defaults main passes: page headings
\* on, header and footer removal on, no page limit; doc is the list of the
\* pages' lines as get_page_lines returns them
pdf_to_markdown(doc) ==
  LET body_size == compute_body_font_size(Flatten(doc))
      out == RenderPages(doc, body_size, 1, << <<>> >>)
  IN [out_lines |-> out, md |-> RStrip(JoinLines(out)) \o <<NL>>]

MaxPages == 3

\* a line of get_page_lines with one upright span, 3 units high, at the left
\* margin
TextLine(plain, size, y0, block_id) ==
  [plain |-> plain, size_avg |-> size, bold |-> FALSE, italic |-> FALSE,
   x0 |-> 0, y0 |-> y0, y1 |-> y0 + 3, block_id |-> block_id]

\* pages with and without a running header, a bare page number, a footer, and
\* the header's text in the middle of the page; every line is its own block
HeaderPages ==
  LET at == TextLine(<<"a", "t">>, 100, 50, 1)
  IN { <<TextLine(<<"P", "g", " ", "1">>, 100, 5, 0), at>>,
       <<TextLine(<<"P", "g", " ", "2">>, 100, 5, 0), at>>,
       <<TextLine(<<"7">>, 100, 5, 0), at>>,
       <<TextLine(<<"P", "g", " ", "1">>, 100, 40, 0), at>>,
       <<at, TextLine(<<"P", "g", " ", "2">>, 100, 90, 2)>>,
       <<at>>,
       <<TextLine(<<"T", "o", "p">>, 100, 12, 0)>> }

HeaderDocs == UNION { [1..n -> HeaderPages] : n \in 1..MaxPages }

\* one page of two ordinary lines, in the same block or in two blocks: the
\* first with and without a trailing hyphen (and a space after it, and in
\* bold), the second starting with a lowercase letter, a capital, a space, a
\* digit
ParaDocs ==
  LET sy == <<"s", "y">>
      firsts == { TextLine(sy \o <<"-">>, 100, 50, 0),
                  TextLine(sy, 100, 50, 0),
                  TextLine(sy \o <<"-", " ">>, 100, 50, 0),
                  [TextLine(sy \o <<"-">>, 100, 50, 0) EXCEPT !.bold = TRUE],
                  TextLine(<<"-">>, 100, 50, 0) }
      seconds == { TextLine(t, 100, 54, b) :
                     t \in { <<"a", "t">>, <<"T", "o", "p">>, <<" ", "a", "t">>,
                             <<"7">> },
                     b \in {0, 1} }
  IN { << <<l1, l2>> >> : l1 \in firsts, l2 \in seconds }

\* one page with the line "Title" at 25pt, alone or with lines at 10pt before
\* or after it that carry more, or fewer, characters than it
TitleDocs ==
  LET T == TextLine(<<"T", "i", "t", "l", "e">>, 250, 20, 0)
      long == TextLine(<<"a", "t", " ", "a", "t", " ", "a", "t">>, 100, 50, 1)
      short == TextLine(<<"a", "t">>, 100, 50, 1)
      low == [T EXCEPT !.block_id = 2, !.y0 = 70, !.y1 = 73]
  IN { << <<T>> >>, << <<T, long>> >>, << <<long, low>> >>, << <<T, short>> >>,
       << <<short, low>> >>, << <<T, short, short, short>> >>,
       << <<T, long, long>> >> }

MaxTallyPages == 5

\* documents of 3 pages and more; a page has its body line alone, or a
\* running header above it, or a running footer below it
TallyDocs ==
  LET at == TextLine(<<"a", "t">>, 100, 50, 1)
      hd == TextLine(<<"P", "g", " ", "1">>, 100, 5, 0)
      ft == TextLine(<<"F", "t", " ", "1">>, 100, 90, 2)
  IN UNION { [1..n -> { <<at>>, <<hd, at>>, <<at, ft>> }] : n \in 3..MaxTallyPages }

\* pdf_to_markdown applied to a document
PdfToMarkdown ==
  /\ fn = "pdf_to_markdown"
  /\ fpc = 0
  /\ ret' = <<pdf_to_markdown(arg)>>
  /\ fpc' = 1
  /\ UNCHANGED <<fn, arg>>
  /\ UNCHANGED <<kvars, uvars>>

\* ----------------------------------------------------- xlsxExtract.main
MaxSheets == 2

\* the rows of a sheet as worksheet_to_rows returns them: sheets without a
\* row, with blank cells only, and with text
SheetContents ==
  { <<>>, << <<>> >>, << <<"">> >>, << <<" ">>, <<"", " ">> >>,
    << <<"x">> >>, << <<"", "x">>, <<"x">> >> }

SheetName(k) ==
  CASE k = 1 -> "S1" [] k = 2 -> "S2" [] k = 3 -> "S3" [] OTHER -> "Sn"

Workbooks == UNION { [1..n -> SheetContents] : n \in 1..MaxSheets }

\* lines 325-343: what one iteration of `for sheet_name in selected_sheets`
\* appends to out_lines
SheetOut(sheet_name, rs) ==
  LET cropped == crop_rows_and_cols(rs)
  IN IF cropped = <<>>
     THEN << <<"## Sheet: ", sheet_name>>, <<>>, <<"_(No data)_">>, <<>> >>
     ELSE << <<"## Sheet: ", sheet_name>>, <<>>,
             JoinLines(rows_to_markdown_text(
                         [k \in 1..Len(cropped) |-> cropped[k].cells])),
             <<>> >>

RECURSIVE SheetsOut(_, _)
SheetsOut(wb, k) ==
  IF k > Len(wb) THEN <<>> ELSE SheetOut(SheetName(k), wb[k]) \o SheetsOut(wb, k + 1)

\* xlsxExtract.main from `out_lines = []` on, for all the sheets of wb
xlsx_main(wb) ==
  LET out == << <<>> >> \o SheetsOut(wb, 1)
  IN [out_lines |-> out, content |-> RStrip(JoinLines(out)) \o <<NL>>]

\* xlsxExtract.main applied to a workbook
XlsxMain ==
  /\ fn = "xlsx.main"
  /\ fpc = 0
  /\ ret' = <<xlsx_main(arg)>>
  /\ fpc' = 1
  /\ UNCHANGED <<fn, arg>>
  /\ UNCHANGED <<kvars, uvars>>

\* ------------------------------------------- one piece of text, rendered
MaxCell == 3

\* the source characters: a line break, a pipe, a star and a letter
CellChars == {NL, "|", "*", "a"}

CellTexts == UNION { [1..n -> CellChars] : n \in 0..MaxCell }

\* a hyperlink target; <<>> is no hyperlink
Urls == { <<>>, <<"u">>, <<"u", "|", "v">> }

\* s.replace(c, by) for a one-character c
RECURSIVE ReplaceChar(_, _, _)
ReplaceChar(s, c, by) ==
  IF s = <<>> THEN <<>>
  ELSE (IF Head(s) = c THEN by ELSE <<Head(s)>>) \o ReplaceChar(Tail(s), c, by)

BR == <<"<", "b", "r", ">">>

\* the text split at its line breaks: the paragraphs of a text frame, the
\* lines of str.splitlines() for a text that does not end with a line break
RECURSIVE Paragraphs(_)
Paragraphs(t) ==
  IF \A k \in 1..Len(t) : t[k] # NL THEN <<t>>
  ELSE LET k == CHOOSE i \in 1..Len(t) : t[i] = NL /\ \A j \in 1..(i - 1) : t[j] # NL
       IN <<SubSeq(t, 1, k - 1)>> \o Paragraphs(SubSeq(t, k + 1, Len(t)))

\* [x for x in parts if x]
RECURSIVE NonEmptyParts(_)
NonEmptyParts(parts) ==
  IF parts = <<>> THEN <<>>
  ELSE (IF Head(parts) = <<>> THEN <<>> ELSE <<Head(parts)>>)
       \o NonEmptyParts(Tail(parts))

\* sep.join(parts)
RECURSIVE JoinWith(_, _)
JoinWith(parts, sep) ==
  IF parts = <<>> THEN <<>>
  ELSE IF Len(parts) = 1 THEN parts[1]
  ELSE parts[1] \o sep \o JoinWith(Tail(parts), sep)

\* xlsxExtract.escape_md_table_cell(text); CellChars holds no carriage
\* return, tab or non-breaking space for the first three replacements
escape_md_table_cell_xlsx(s) ==
  ReplaceChar(ReplaceChar(s, NL, BR), "|", <<"\\", "|">>)

\* pptxExtract.escape_md_table_cell(text)
escape_md_table_cell_pptx(s) ==
  md_escape_pptx(ReplaceChar(ReplaceChar(s, NL, BR), "|", <<"\\", "|">>), TRUE)

\* pptxExtract.paragraph_to_markdown_text for a paragraph of one upright run
\* without hyperlink; p holds no line break for the re.sub to replace
paragraph_to_markdown_text(p) == Strip(md_escape_pptx(p, FALSE))

\* the paragraph texts of a text frame whose paragraphs are the lines of t
ParagraphTexts(t) ==
  [k \in 1..Len(Paragraphs(t)) |-> paragraph_to_markdown_text(Paragraphs(t)[k])]

\* pptxExtract.table_to_markdown, one cell: lines 149-152
table_cell_pptx(t) ==
  escape_md_table_cell_pptx(
    JoinWith(NonEmptyParts(ParagraphTexts(t)), <<" ", "<", "b", "r", ">", " ">>))

\* pptxExtract.text_frame_to_bullets at level 0, the lines joined
text_frame_to_bullets_text(t) ==
  LET texts == NonEmptyParts(ParagraphTexts(t))
  IN JoinWith([k \in 1..Len(texts) |-> <<"- ">> \o texts[k]], <<NL>>)

\* the subtitle of extract_slide_content (lines 279-283) as main writes it
\* (lines 406-407)
subtitle_pptx(t) ==
  LET sub == Strip(JoinWith(NonEmptyParts(ParagraphTexts(t)), <<" ">>))
  IN IF sub = <<>> THEN <<>>
     ELSE <<"_Subtitle:_ ">> \o md_escape_pptx(sub, FALSE)

\* the notes of extract_notes from notes_text_frame.text (lines 321-326) as
\* main writes them (lines 426-433), the lines joined
notes_pptx(t) ==
  LET ls == NonEmptyParts([k \in 1..Len(Paragraphs(Strip(t))) |->
                             Strip(Paragraphs(Strip(t))[k])])
  IN JoinWith([k \in 1..Len(ls) |-> <<"> ">> \o md_escape_pptx(ls[k], FALSE)],
              <<NL>>)

\* docxExtract.paragraph_inline_to_markdown for a paragraph of one upright
\* run; CellChars holds no space or tab for the two re.sub to act on
paragraph_inline_to_markdown(t) == Strip(md_escape_docx(t, FALSE))

\* docxExtract.table_to_markdown, one cell of one paragraph: lines 298-308
table_cell_docx(t) ==
  LET inline == paragraph_inline_to_markdown(t)
      cell_text == Strip(inline)
  IN md_escape_docx(ReplaceChar(cell_text, NL, BR), TRUE)

\* a non-list paragraph of the body: lines 376-380
paragraph_docx(t) == Strip(paragraph_inline_to_markdown(t))

\* xlsxExtract.value_to_text for a string value, from line 106 on
value_to_text(s, url) ==
  IF url # <<>>
  THEN <<"[">> \o escape_md_table_cell_xlsx(s) \o <<"]", "(">> \o url \o <<")">>
  ELSE s

\* xlsxExtract.worksheet_to_rows, one cell: lines 238-239
table_cell_xlsx(s, url) == escape_md_table_cell_xlsx(value_to_text(s, url))

CellFns == {"docx.table_cell", "pptx.table_cell", "xlsx.table_cell"}

PieceFns == CellFns \cup {"docx.paragraph", "pptx.text_frame_to_bullets",
                          "pptx.subtitle", "pptx.notes"}

\* one piece of source text taken to the text the extractor writes for it
RenderPiece ==
  /\ fn \in PieceFns
  /\ fpc = 0
  /\ ret' = <<CASE fn = "docx.table_cell" -> table_cell_docx(arg.text)
                [] fn = "pptx.table_cell" -> table_cell_pptx(arg.text)
                [] fn = "xlsx.table_cell" -> table_cell_xlsx(arg.text, arg.url)
                [] fn = "docx.paragraph" -> paragraph_docx(arg.text)
                [] fn = "pptx.text_frame_to_bullets" ->
                     text_frame_to_bullets_text(arg.text)
                [] fn = "pptx.subtitle" -> subtitle_pptx(arg.text)
                [] OTHER -> notes_pptx(arg.text)>>
  /\ fpc' = 1
  /\ UNCHANGED <<fn, arg>>
  /\ UNCHANGED <<kvars, uvars>>

\* --------------------------------------- word-processing table, merged cells
\* a table as the rows of row.cells: every entry names the underlying cell
\* (cell._tc) it refers to; a merged cell is named at every position it spans
MergeGrids ==
  { << <<1, 2>>, <<3, 4>> >>,
    << <<1, 1>>, <<2, 3>> >>,
    << <<1, 1, 2>> >>,
    << <<1, 2>>, <<1, 3>> >>,
    << <<1>>, <<1>> >>,
    << <<1, 1>>, <<1, 1>> >>,
    << <<1, 2>>, <<3, 3>> >> }

\* the text of the underlying cell
CellName(c) ==
  CASE c = 1 -> "c1" [] c = 2 -> "c2" [] c = 3 -> "c3" [] OTHER -> "c4"

\* lines 288-296 for one row: the cells not in seen_tc_addrs, in order
RECURSIVE UniqueCells(_, _)
UniqueCells(cells, seen_tc_addrs) ==
  IF cells = <<>> THEN <<>>
  ELSE IF Head(cells) \in seen_tc_addrs
       THEN UniqueCells(Tail(cells), seen_tc_addrs)
       ELSE <<Head(cells)>>
            \o UniqueCells(Tail(cells), seen_tc_addrs \cup {Head(cells)})

\* lines 286-309: rows, with seen_tc_addrs = set() at the start of every row
table_rows_docx(grid) ==
  [r \in 1..Len(grid) |->
     [k \in 1..Len(UniqueCells(grid[r], {})) |->
        CellName(UniqueCells(grid[r], {})[k])]]

\* docxExtract.table_to_markdown applied to a table with merged cells
DocxTable ==
  /\ fn = "docx.table_merged"
  /\ fpc = 0
  /\ ret' = <<table_to_markdown_docx(table_rows_docx(arg.grid))>>
  /\ fpc' = 1
  /\ UNCHANGED <<fn, arg>>
  /\ UNCHANGED <<kvars, uvars>>

\* crop_rows_and_cols(rows, keep_empty=False) applied to the rows of a sheet
CropRows ==
  /\ fn = "crop_rows_and_cols"
  /\ fpc = 0
  /\ ret' = <<crop_rows_and_cols(arg.rows)>>
  /\ fpc' = 1
  /\ UNCHANGED <<fn, arg>>
  /\ UNCHANGED <<kvars, uvars>>

\* -------------------------------------- render_spans_from_offset, many spans
MaxSpans == 2

MaxSkip == 4

SpanTexts == { <<>>, <<"a">>, <<"b", "*">> }

SpanKinds ==
  { [text |-> t, bold |-> b, italic |-> i] :
      t \in SpanTexts, b \in BOOLEAN, i \in BOOLEAN }

SpanLists == UNION { [1..n -> SpanKinds] : n \in 0..MaxSpans }

RECURSIVE RenderSpansFirstOnly(_, _)
RenderSpansFirstOnly(spans, remaining_skip) ==
  IF spans = <<>> THEN <<>>
  ELSE LET sp == Head(spans)
       IN IF sp.text = <<>> THEN RenderSpansFirstOnly(Tail(spans), remaining_skip)
          ELSE IF remaining_skip > 0 /\ Len(sp.text) <= remaining_skip
          THEN RenderSpansFirstOnly(Tail(spans), 0)
          ELSE render_span_to_md(SubSeq(sp.text, remaining_skip + 1, Len(sp.text)),
                                 sp.bold, sp.italic)
               \o RenderSpansFirstOnly(Tail(spans), 0)

\* the loop of render_spans_from_offset over the spans, lines 109-122, with
\* "".join(out_parts)
RECURSIVE RenderSpans(_, _)
RenderSpans(spans, remaining_skip) ==
  IF spans = <<>> THEN <<>>
  ELSE LET sp == Head(spans)
       IN IF sp.text = <<>> THEN RenderSpans(Tail(spans), remaining_skip)
          ELSE IF remaining_skip > 0 /\ Len(sp.text) <= remaining_skip
          THEN RenderSpans(Tail(spans), remaining_skip - Len(sp.text))
          ELSE render_span_to_md(SubSeq(sp.text, remaining_skip + 1, Len(sp.text)),
                                 sp.bold, sp.italic)
               \o RenderSpans(Tail(spans), 0)

\* render_spans_from_offset(spans, skip_chars) applied to a list of spans
RenderSpansFromOffset ==
  /\ fn = "render_spans_from_offset"
  /\ fpc = 0
  /\ ret' = <<RenderSpans(arg.spans, arg.skip_chars)>>
  /\ fpc' = 1
  /\ UNCHANGED <<fn, arg>>
  /\ UNCHANGED <<kvars, uvars>>

FnInit ==
  /\ NoHarness
  /\ NoUnit
  /\ fpc = 0
  /\ ret = <<>>
  /\ \/ /\ fn \in TableFns
        /\ arg \in { [rows |-> rs, header |-> h] :
                       rs \in SheetRows,
                       h \in (IF fn = "docx.table_to_markdown" THEN {TRUE}
                              ELSE BOOLEAN) }
     \/ /\ fn = "heading_level_for_size"
        /\ arg \in { <<[size |-> s1, body |-> b1], [size |-> s2, body |-> b2]>> :
                       s1 \in SizeTenths, b1 \in BodyTenths,
                       s2 \in SizeTenths, b2 \in BodyTenths }
     \/ /\ fn = "xlsx.main"
        /\ arg \in Workbooks
     \/ /\ fn = "docx.table_merged"
        /\ arg \in { [grid |-> g] : g \in MergeGrids }
     \/ /\ fn = "crop_rows_and_cols"
        /\ arg \in { [rows |-> rs] : rs \in SheetRows }
     \/ /\ fn = "render_spans_from_offset"
        /\ arg \in { [spans |-> ss, skip_chars |-> k] :
                       ss \in SpanLists, k \in 0..MaxSkip }
     \/ /\ fn \in PieceFns
        /\ arg \in { [text |-> t, url |-> u] :
                       t \in CellTexts,
                       u \in (IF fn = "xlsx.table_cell" THEN Urls ELSE {<<>>}) }
     \/ /\ fn = "pdf_to_markdown"
        /\ arg \in HeaderDocs \cup ParaDocs \cup TitleDocs \cup TallyDocs
     \/ /\ fn \in EscapeFns
        /\ arg \in { [text |-> t, escape_pipes |-> e] :
                       t \in InputTexts,
                       e \in (IF fn = "pdf.md_escape" THEN {FALSE} ELSE BOOLEAN) }

FnNext ==
  \/ MdEscape
  \/ RenderTable
  \/ HeadingLevel
  \/ PdfToMarkdown
  \/ XlsxMain
  \/ RenderPiece
  \/ DocxTable
  \/ CropRows
  \/ RenderSpansFromOffset

FnSpec == FnInit /\ [][FnNext]_vars

\* ====================================================== harness claims
Done(i) == outcome[i].kind # "none"

\* C1: when the worker enqueued the error marker ("err", ...), the call of
\* multiProcessStarter never returns that marker to its caller as a result
C1_MarkerNeverReturned == ~(hpc = "returned" /\ result.kind = "err")

\* C2: a result is returned only when the worker's exit code is 0; a worker
\* that delivered a result and then exited with a non-zero code makes the
\* job end as Crashed with that exit code in the error
C2_ExitCodeDecides ==
  /\ \A i \in Jobs :
       outcome[i].kind = "Succeeded" => proc[i].st = "exited" /\ proc[i].code = 0
  /\ hpc = "returned" => proc[idx].st = "exited" /\ proc[idx].code = 0
  /\ \A i \in Jobs :
       (Done(i) /\ outcome[i].kind # "TimedOut" /\ proc[i].st = "exited"
          /\ proc[i].code # 0)
       => outcome[i].kind = "Crashed" /\ outcome[i].code = proc[i].code

C2_Witness ==
  /\ hpc = "raised"
  /\ result.kind = "text"
  /\ outcome[idx].kind = "Crashed"
  /\ outcome[idx].code = 0 - 11

C3_State ==
  \A i \in Jobs :
    outcome[i].kind = "TimedOut" =>
      /\ outcome[i].msg = (IF alive THEN "hung" ELSE "exited")
      /\ proc[i].code = 0 - SIGTERM => outcome[i].msg = "hung"
      /\ outcome[i].msg = "exited" => extout[i].kind \in {"sysexit", "crash"}

C3_Step ==
  (hpc = "get" /\ hpc' = "terminate") =>
     /\ alive' = (proc[idx].st # "exited")
     /\ proc' = proc

\* C3: when no result arrives in time, the error says "hung" exactly when the
\* worker was alive at the timeout and "exited" when it had already exited
\* without enqueuing; the liveness is read before the termination request, so
\* a worker the harness had to kill is never reported as "exited"
C3_HungOrExited == [](C3_State) /\ [][C3_Step]_vars

C3_Witness ==
  /\ outcome[idx].kind = "TimedOut"
  /\ outcome[idx].msg = "hung"
  /\ proc[idx].code = 0 - SIGTERM

\* C4: whenever multiProcessStarter has returned or raised, the result queue
\* has been closed and its feeder thread joined
C4_QueueAlwaysClosed ==
  hpc \in {"returned", "raised"} => rQ.st = "closed" /\ rQ.joined

\* C5: every call of multiProcessStarter eventually returns or raises
C5_CallTerminates == (hpc = "start") ~> (hpc \in {"returned", "raised"})

\* C6: at most one worker process is alive at any moment, and the worker of
\* an earlier file has exited before the worker of a later file is started
C6_OneWorkerAtATime ==
  /\ Cardinality({i \in Jobs : IsAlive(proc[i])}) <= 1
  /\ \A i, j \in Jobs :
       (i < j /\ proc[j].st # "unborn") => ~IsAlive(proc[i])

C6_Witness ==
  /\ Len(files) >= 2
  /\ proc[1].st = "exited"
  /\ proc[2].st = "running"

\* C8: a file whose extractor failed to parse it does not stop the run:
\* processInputToPrompt never ends with an error because of it
C8_ParseFailureContained ==
  \A i \in Jobs :
    extout[i].kind \in {"sysexit", "raise"} => opc # "raised"

C9_Recognized ==
  { <<".", "p", "d", "f">>, <<".", "d", "o", "c", "x">>,
    <<".", "x", "l", "s", "x">>, <<".", "p", "p", "t", "x">>,
    <<".", "m", "p", "3">>, <<".", "p", "n", "g">>, <<".", "j", "p", "g">>,
    <<".", "j", "p", "e", "g">> }

C9_Unrecognized(file) == Lower(SplitExt(file)) \notin C9_Recognized

C9_State ==
  \A i \in 1..Len(files) :
    C9_Unrecognized(files[i]) =>
      /\ proc[i] = Unborn
      /\ outcome[i] = NoErr
      /\ ~(opc = "call" /\ idx = i)
      /\ ~(opc = "raised" /\ idx = i)

C9_Step ==
  (opc = "loop" /\ idx <= Len(files) /\ C9_Unrecognized(files[idx])) =>
     /\ idx' = idx + 1
     /\ opc' = "loop"
     /\ oerr' = NoErr
     /\ proc' = proc

\* C9: for a file whose lower-cased extension is not recognized, no worker
\* process is started, no error is raised, and the loop goes on to the next
\* file
C9_UnsupportedSkipped == [](C9_State) /\ [][C9_Step]_vars

C9_Witness ==
  /\ Len(files) >= 2
  /\ C9_Unrecognized(files[1])
  /\ idx = 2
  /\ proc[2].st = "running"

C10_Label(ext) ==
  CASE ext = <<".", "p", "d", "f">> -> "PDF"
    [] ext = <<".", "d", "o", "c", "x">> -> "DOCX"
    [] ext = <<".", "x", "l", "s", "x">> -> "XLSX"
    [] ext = <<".", "p", "p", "t", "x">> -> "PPTX"
    [] ext = <<".", "m", "p", "3">> -> "Audio"
    [] ext \in {<<".", "p", "n", "g">>, <<".", "j", "p", "g">>,
                <<".", "j", "p", "e", "g">>} -> "Image"
    [] OTHER -> "Unsupported"

C10_TextOf(i) == IF extout[i].kind = "text" THEN <<extout[i].val>> ELSE <<>>

RECURSIVE C10_ClaimedFiles(_)
C10_ClaimedFiles(n) ==
  IF n = 0 THEN <<>>
  ELSE C10_ClaimedFiles(n - 1)
       \o <<C10_Label(Lower(SplitExt(files[n]))), " File: ">> \o files[n] \o <<"\n">>
       \o C10_TextOf(n) \o <<"\n", "\n", "\n", "\n">>

\* C10 as claimed: for every list of files, the empty list included, the
\* returned text is the preamble with the files header, then for each file
\* `<TypeLabel> File: <path>\n`, the extractor's text and four newlines
C10_UniformPrompt ==
  opc = "returned" =>
    finalPrompt = <<"User Prompt: ", prompt, "\n", "\n",
                    "User Uploaded Files: ", "\n", "\n">>
                  \o C10_ClaimedFiles(Len(files))

C10_Piece(n) ==
  LET lab == C10_Label(Lower(SplitExt(files[n])))
  IN CASE lab = "Unsupported" -> <<"\n", "\n", "\n", "\n">>
       [] lab = "Image" ->
            <<"Image ">> \o files[n] \o <<" Details:", "\n">>
            \o C10_TextOf(n) \o <<"\n", "\n", "\n", "\n">>
       [] OTHER ->
            <<lab \o " File: ">> \o files[n] \o <<"\n">>
            \o C10_TextOf(n) \o <<"\n", "\n", "\n", "\n">>

RECURSIVE C10_ActualFiles(_)
C10_ActualFiles(n) ==
  IF n = 0 THEN <<>> ELSE C10_ActualFiles(n - 1) \o C10_Piece(n)

\* C10 as amended: whenever processInputToPrompt returns, the text is
\* `User Prompt: <prompt>\n\n`, then, only for a non-empty list,
\* `User Uploaded Files: \n\n` and for each file in input order: nothing but
\* four newlines when the extension is not recognized, else the banner
\* (`Image <path> Details:\n` for images, `<TypeLabel> File: <path>\n` for the
\* others), the extractor's text and four newlines
C10_PromptLayout ==
  opc = "returned" =>
    finalPrompt = <<"User Prompt: ", prompt, "\n", "\n">>
                  \o (IF Len(files) = 0 THEN <<>>
                      ELSE <<"User Uploaded Files: ", "\n", "\n">>)
                  \o C10_ActualFiles(Len(files))

C10_Witness ==
  /\ opc = "returned"
  /\ Len(files) >= 2
  /\ C10_Label(Lower(SplitExt(files[1]))) = "Image"
  /\ C10_Label(Lower(SplitExt(files[2]))) = "PDF"
  /\ finalPrompt[Len(finalPrompt) - 4] = "mdB"

\* ========================================================= unit claims
C7_Content(l) == l.src > 0

C7_InOrder(a, b) ==
  \/ out_lines[a].src < out_lines[b].src
  \/ /\ out_lines[a].src = out_lines[b].src
     /\ out_lines[a].k = out_lines[b].k => out_lines[a].j <= out_lines[b].j

\* C7 as claimed: in every extractor the rendered lines of one logical unit
\* follow the order in which the source blocks are traversed
C7_TraversalOrder ==
  upc = "done" =>
    \A a, b \in 1..Len(out_lines) :
      (a < b /\ C7_Content(out_lines[a]) /\ C7_Content(out_lines[b]))
      => C7_InOrder(a, b)

C7_Rank(k) ==
  CASE k = "subtitle" -> 1
    [] k = "bullet" -> 2
    [] k \in {"tablelabel", "table"} -> 3
    [] OTHER -> 4

C7_Rendered == {out_lines[a].src : a \in {n \in 1..Len(out_lines) : C7_Content(out_lines[n])}}

\* C7 as amended: the word-processing, PDF and spreadsheet extractors render
\* the blocks of a unit (body, page, sheet) in traversal order; the slide-deck
\* extractor renders a slide by kind, the subtitle lines first, then the list
\* items of all text shapes, then all tables, then the notes, and keeps the
\* traversal order inside each kind, so a table that precedes a text box in
\* the shape stream is rendered after that text box's list items
C7_OrderWithinKind ==
  upc = "done" =>
    /\ unit = "docx" =>
         /\ \A a, b \in 1..Len(out_lines) :
              (a < b /\ C7_Content(out_lines[a]) /\ C7_Content(out_lines[b]))
              => out_lines[a].src < out_lines[b].src
         /\ C7_Rendered =
              {i \in 1..Len(body) :
                 body[i].tag = "tbl" \/ body[i].inline \/ body[i].heading # 0}
    /\ unit = "pdf" =>
         /\ \A a, b \in 1..Len(out_lines) :
              (a < b /\ C7_Content(out_lines[a]) /\ C7_Content(out_lines[b]))
              => out_lines[a].j < out_lines[b].src
         /\ \A i \in 1..Len(page_lines) :
              page_lines[i].kind \in {"list", "heading", "para"}
              => \E a \in 1..Len(out_lines) :
                   /\ out_lines[a].k = page_lines[i].kind
                   /\ out_lines[a].src <= i /\ i <= out_lines[a].j
    /\ unit = "xlsx" =>
         /\ \A a, b \in 1..Len(out_lines) :
              (a < b /\ C7_Content(out_lines[a]) /\ C7_Content(out_lines[b]))
              => out_lines[a].src < out_lines[b].src
         /\ \A i \in 1..Len(rows) : ~row_is_empty(rows[i]) => i \in C7_Rendered
    /\ unit = "pptx" =>
         /\ \A a, b \in 1..Len(out_lines) :
              (a < b /\ C7_Content(out_lines[a]) /\ C7_Content(out_lines[b]))
              => /\ C7_Rank(out_lines[a].k) <= C7_Rank(out_lines[b].k)
                 /\ C7_Rank(out_lines[a].k) = C7_Rank(out_lines[b].k)
                      => C7_InOrder(a, b)
         /\ \A i \in 1..Len(Stream) :
              (Stream[i].kind \in {"text", "table", "subtitle"}
                 /\ \E j \in 1..Len(Stream[i].paras) : Stream[i].paras[j])
              => i \in C7_Rendered

C7_Witness ==
  /\ unit = "pptx"
  /\ upc = "done"
  /\ \E a, b \in 1..Len(out_lines) :
       /\ a < b
       /\ out_lines[a].k = "bullet"
       /\ out_lines[b].k = "table"
       /\ out_lines[b].src < out_lines[a].src

\* =========================================================== claims C11-C20
C11_Listed == C9_Recognized \cup { <<".", "x", "l", "s", "m">> }

\* C11: every file already passed by the loop whose lower-cased extension is
\* one of .pdf .docx .xlsx .xlsm .pptx .mp3 .png .jpg .jpeg was handed to an
\* extractor worker (a worker process was started for it)
C11_ListedDispatched ==
  \A i \in 1..Len(files) :
    (i < idx /\ Lower(SplitExt(files[i])) \in C11_Listed) => proc[i] # Unborn

\* what the claim says of escape: one backslash put before every backslash
\* and before every character of the class, nothing else changed
RECURSIVE C12_Expected(_, _)
C12_Expected(text, class) ==
  IF text = <<>> THEN <<>>
  ELSE (IF Head(text) = "\\" \/ Head(text) \in class
        THEN <<"\\", Head(text)>> ELSE <<Head(text)>>)
       \o C12_Expected(Tail(text), class)

C12_Class ==
  {"grave", "*", "_", "{", "}", "[", "]", "(", ")", "#", "+", "-", ".", "!", ">"}

C12_Applied == fn \in EscapeFns /\ fpc >= 1 /\ ~arg.escape_pipes

\* C12 as stated: in all three implementations, escape without pipes puts one
\* backslash before every backslash and every character of the class
\* ` * _ { } [ ] ( ) # + - . ! > and leaves the rest unchanged
C12_SameClassEverywhere ==
  C12_Applied => ret[1] = C12_Expected(arg.text, C12_Class)

\* C12 amended: the word-processing md_escape uses that class; the PDF and
\* slide-deck ones use the class without '-', which they leave unchanged
C12_ClassPerExtractor ==
  C12_Applied =>
    ret[1] = C12_Expected(arg.text,
                          IF fn = "docx.md_escape" THEN C12_Class
                          ELSE C12_Class \ {"-"})

C12_Witness ==
  /\ C12_Applied
  /\ fn = "pdf.md_escape"
  /\ arg.text = <<"\\", "*", "-">>
  /\ ret[1] = <<"\\", "\\", "\\", "*", "-">>

\* for each '*' of s in order, how many backslashes stand right before it
RECURSIVE C13_Runs(_, _)
C13_Runs(s, run) ==
  IF s = <<>> THEN <<>>
  ELSE IF Head(s) = "\\" THEN C13_Runs(Tail(s), run + 1)
  ELSE IF Head(s) = "*" THEN <<run>> \o C13_Runs(Tail(s), 0)
  ELSE C13_Runs(Tail(s), 0)

C13_OneMore(before, after) ==
  /\ Len(after) = Len(before)
  /\ \A j \in 1..Len(before) : after[j] = 2 * before[j] + 1

\* C13: for every text containing '*', escape inserts exactly one backslash
\* before each '*' (the backslashes already there are doubled), escaping the
\* output again doubles the inserted backslash and inserts one more (\* becomes
\* \\\*), and so escape(escape(t)) differs from escape(t)
C13_NotIdempotent ==
  (fn \in EscapeFns /\ fpc = 2 /\ \E k \in 1..Len(arg.text) : arg.text[k] = "*")
    => /\ C13_OneMore(C13_Runs(arg.text, 0), C13_Runs(ret[1], 0))
       /\ C13_OneMore(C13_Runs(ret[1], 0), C13_Runs(ret[2], 0))
       /\ ret[2] # ret[1]

C13_Witness ==
  /\ fn = "docx.md_escape"
  /\ fpc = 2
  /\ arg.text = <<"a", "*">>
  /\ ret[1] = <<"a", "\\", "*">>
  /\ ret[2] = <<"a", "\\", "\\", "\\", "*">>

\* the cells of an emitted line: the pieces between the pipes
C14_Cells(line) == [k \in 1..((Len(line) - 1) \div 2) |-> line[2 * k]]

C14_Widest(rs) == Max({Len(rs[k]) : k \in 1..Len(rs)})

C14_Uneven(rs) == \E a, b \in 1..Len(rs) : Len(rs[a]) # Len(rs[b])

C14_Filled(r, n) == [k \in 1..n |-> IF k <= Len(r) THEN r[k] ELSE ""]

\* C14: for a table with rows of uneven length each renderer emits a header,
\* a separator and body lines that all have as many cells as the widest input
\* row, and every input row is emitted filled with empty cells on the right
C14_RowsPadded ==
  (fn \in TableFns /\ fpc = 1 /\ C14_Uneven(arg.rows)) =>
    LET out == ret[1]
        n == Len(arg.rows)
        w == C14_Widest(arg.rows)
        d == Len(out) - n
    IN /\ d \in {1, 2}
       /\ fn = "docx.table_to_markdown" => d = 1
       /\ \A k \in 1..Len(out) : Len(C14_Cells(out[k])) = w
       /\ \A k \in 1..w : C14_Cells(out[2])[k] = "---"
       /\ d = 1 => C14_Cells(out[1]) = C14_Filled(arg.rows[1], w)
       /\ \A k \in 3..Len(out) : C14_Cells(out[k]) = C14_Filled(arg.rows[k - d], w)

C14_Witness ==
  /\ fn = "pptx.table_to_markdown"
  /\ fpc = 1
  /\ arg.rows = << <<"x", " ", "x">>, <<"x">> >>
  /\ ret[1][3] = <<"| ", "x", " | ", "", " | ", "", " |">>

\* the thresholds in hundredths, for H1 to H6
C15_Thresholds == <<210, 180, 160, 145, 130, 118>>

\* 'not a heading' counts as deeper than H6
C15_Depth(lvl) == IF lvl = 0 THEN 7 ELSE lvl

\* the level is the first threshold the ratio reaches, the threshold included
C15_Exact(a, lvl) ==
  /\ lvl \in 0..6
  /\ \A L \in 1..6 :
       (lvl = L) <=>
         /\ a.size * 100 >= C15_Thresholds[L] * a.body
         /\ \A M \in 1..(L - 1) : a.size * 100 < C15_Thresholds[M] * a.body

\* C15: for body > 0 the heading level is monotonic in size/body (a larger
\* ratio never gets a deeper level, None being deeper than H6) and the
\* boundaries are exactly 2.1, 1.8, 1.6, 1.45, 1.3 and 1.18, each included
C15_Monotonic ==
  (fn = "heading_level_for_size" /\ fpc = 2 /\ arg[1].body > 0 /\ arg[2].body > 0)
    => /\ C15_Exact(arg[1], ret[1])
       /\ C15_Exact(arg[2], ret[2])
       /\ arg[1].size * arg[2].body < arg[2].size * arg[1].body
            => C15_Depth(ret[2]) <= C15_Depth(ret[1])

C15_Witness ==
  /\ fn = "heading_level_for_size"
  /\ fpc = 2
  /\ arg = <<[size |-> 144, body |-> 100], [size |-> 290, body |-> 200]>>
  /\ ret = <<5, 4>>

\* the position of a line in a list of lines, 0 when it is not there
C16_Find(ls, l) ==
  IF \E k \in 1..Len(ls) : ls[k] = l
  THEN CHOOSE k \in 1..Len(ls) : ls[k] = l /\ \A j \in 1..(k - 1) : ls[j] # l
  ELSE 0

\* the output lines of page pi: those after its heading, up to the next one
C16_PageOut(out, pi) ==
  LET from == C16_Find(out, <<"#", "#", " ", "P", "a", "g", "e", " ", Digit(pi)>>)
      next == C16_Find(out, <<"#", "#", " ", "P", "a", "g", "e", " ", Digit(pi + 1)>>)
  IN SubSeq(out, from + 1, IF next = 0 THEN Len(out) ELSE next - 1)

C16_Shown(out, pi, ln) ==
  \E k \in 1..Len(C16_PageOut(out, pi)) : C16_PageOut(out, pi)[k] = ln.plain

C16_InTop(ln) == ln.y0 * 100 <= 12 * 100

\* on how many pages the normalized text occurs in the top zone
C16_PagesWith(doc, norm) ==
  Cardinality({pi \in 1..Len(doc) :
                 \E k \in 1..Len(doc[pi]) :
                   /\ C16_InTop(doc[pi][k])
                   /\ normalize_for_repeat(doc[pi][k].plain) = norm})

C16_Recurring(doc, ln) ==
  /\ Len(doc) >= 3
  /\ C16_InTop(ln)
  /\ C16_PagesWith(doc, normalize_for_repeat(ln.plain)) >= (Len(doc) + 1) \div 2

C16_Applied == fn = "pdf_to_markdown" /\ fpc = 1 /\ arg \in HeaderDocs

\* C16 as stated: a top-zone line whose normalized text is in the top zone of
\* ceil(pageCount/2) or more of at least 3 pages is absent from the output of
\* its page, whatever the length of the normalized text; with fewer than 3
\* pages every line is in the output
C16_RecurringRemoved ==
  C16_Applied =>
    \A pi \in 1..Len(arg) : \A k \in 1..Len(arg[pi]) :
      /\ C16_Recurring(arg, arg[pi][k]) => ~C16_Shown(ret[1].out_lines, pi, arg[pi][k])
      /\ Len(arg) < 3 => C16_Shown(ret[1].out_lines, pi, arg[pi][k])

\* C16 amended: the same for a normalized text of at least 3 characters; a
\* line whose normalized text is shorter (a bare page number) is never removed
C16_LongRecurringRemoved ==
  C16_Applied =>
    \A pi \in 1..Len(arg) : \A k \in 1..Len(arg[pi]) :
      LET ln == arg[pi][k]
          short == Len(normalize_for_repeat(ln.plain)) < 3
      IN /\ (C16_Recurring(arg, ln) /\ ~short) => ~C16_Shown(ret[1].out_lines, pi, ln)
         /\ (Len(arg) < 3 \/ short) => C16_Shown(ret[1].out_lines, pi, ln)

C16_Witness ==
  /\ C16_Applied
  /\ Len(arg) = 3
  /\ arg[1][1].plain = <<"P", "g", " ", "1">> /\ arg[1][1].y0 = 5
  /\ arg[2][1].plain = <<"P", "g", " ", "2">> /\ arg[2][1].y0 = 5
  /\ arg[3][1].plain = <<"7">>
  /\ ret[1].out_lines = << <<>>, <<"#", "#", " ", "P", "a", "g", "e", " ", "1">>, <<>>,
                           <<"a", "t">>, <<>>,
                           <<"#", "#", " ", "P", "a", "g", "e", " ", "2">>, <<>>,
                           <<"a", "t">>, <<>>,
                           <<"#", "#", " ", "P", "a", "g", "e", " ", "3">>, <<>>,
                           <<"7">>, <<>>, <<"a", "t">>, <<>> >>

\* the line as it is shown on its own: stripped, in ** when bold
C17_Shown(ln) ==
  IF ln.bold THEN <<"*", "*">> \o Strip(ln.plain) \o <<"*", "*">>
  ELSE Strip(ln.plain)

\* t without its last hyphen
C17_WithoutHyphen(t) ==
  LET k == RFind(t, "-") IN SubSeq(t, 1, k - 1) \o SubSeq(t, k + 1, Len(t))

C17_EndsWithHyphen(ln) ==
  LET t == Strip(ln.plain) IN t # <<>> /\ t[Len(t)] = "-"

C17_StartsLower(ln) ==
  LET t == Strip(ln.plain)
  IN t # <<>> /\ t[1] \in {"a", "b", "c", "d", "e", "f", "g", "h", "i", "j", "k",
                           "l", "m", "n", "o", "p", "q", "r", "s", "t", "u", "v",
                           "w", "x", "y", "z"}

C17_Merged ==
  /\ fn = "pdf_to_markdown"
  /\ fpc = 1
  /\ arg \in ParaDocs
  /\ arg[1][1].block_id = arg[1][2].block_id

\* C17: when two consecutive ordinary lines of one block are merged and the
\* first ends with a hyphen while the second begins with a lowercase letter
\* (a to z), the paragraph is the first line without its trailing hyphen
\* directly followed by the second; otherwise the two lines are separated by
\* exactly one space
C17_HyphenJoin ==
  C17_Merged =>
    LET l1 == arg[1][1]
        l2 == arg[1][2]
    IN /\ Len(ret[1].out_lines) = 5
       /\ ret[1].out_lines[4] =
            IF C17_EndsWithHyphen(l1) /\ C17_StartsLower(l2)
            THEN C17_WithoutHyphen(C17_Shown(l1)) \o C17_Shown(l2)
            ELSE C17_Shown(l1) \o <<" ">> \o C17_Shown(l2)

C17_Witness ==
  /\ C17_Merged
  /\ arg[1][1].plain = <<"s", "y", "-">>
  /\ ~arg[1][1].bold
  /\ arg[1][2].plain = <<"a", "t">>
  /\ ret[1].out_lines[4] = <<"s", "y", "a", "t">>

\* the sequence t holds the sequence u as a run of consecutive elements
C19_Contains(t, u) ==
  \E i \in 0..(Len(t) - Len(u)) : SubSeq(t, i + 1, i + Len(u)) = u

C19_EndsWith(t, u) ==
  Len(t) >= Len(u) /\ SubSeq(t, Len(t) - Len(u) + 1, Len(t)) = u

C19_H1Line == <<"\n", "#", " ", "T", "i", "t", "l", "e", "\n">>

C19_IsTitle(ln) == ln.plain = <<"T", "i", "t", "l", "e">> /\ ln.size_avg = 250

C19_Applied == fn = "pdf_to_markdown" /\ fpc = 1 /\ arg \in TitleDocs

\* C19 as stated: when the line Title at 2.5 times the body size is the only
\* content of the PDF, the output holds the line `# Title` and a blank line
\* after it
C19_LoneTitleIsH1 ==
  (C19_Applied /\ Len(arg[1]) = 1 /\ C19_IsTitle(arg[1][1]))
    => C19_Contains(ret[1].md, C19_H1Line \o <<"\n">>)

\* the characters of the lines of the page other than line t
RECURSIVE C19_OtherChars(_, _, _)
C19_OtherChars(page, t, k) ==
  IF k = 0 THEN 0
  ELSE C19_OtherChars(page, t, k - 1) + (IF k = t THEN 0 ELSE Len(page[k].plain))

\* C19 amended: when the other lines of the PDF are set at the body size (the
\* line Title at 2.5 times it) and carry more characters than Title, the
\* output holds the line `# Title`, with a blank line after it when a line
\* follows and as the last line of the output otherwise; when Title is the
\* only content its own size is the body size and it is rendered as the
\* paragraph `Title`
C19_TitleAgainstBody ==
  C19_Applied =>
    LET page == arg[1]
        t == CHOOSE k \in 1..Len(page) : C19_IsTitle(page[k])
    IN /\ ( /\ \A k \in 1..Len(page) : k # t => page[k].size_avg = 100
            /\ C19_OtherChars(page, t, Len(page)) > Len(page[t].plain) )
          => /\ C19_Contains(ret[1].md, C19_H1Line)
             /\ t < Len(page) => C19_Contains(ret[1].md, C19_H1Line \o <<"\n">>)
             /\ t = Len(page) => /\ C19_EndsWith(ret[1].md, C19_H1Line)
                                 /\ ~C19_Contains(ret[1].md, C19_H1Line \o <<"\n">>)
       /\ Len(page) = 1
          => ret[1].md = <<"\n", "#", "#", " ", "P", "a", "g", "e", " ", "1", "\n",
                           "\n", "T", "i", "t", "l", "e", "\n">>

C19_Witness ==
  /\ C19_Applied
  /\ Len(arg[1]) = 2
  /\ C19_IsTitle(arg[1][1])
  /\ ret[1].md = <<"\n", "#", "#", " ", "P", "a", "g", "e", " ", "1", "\n", "\n",
                   "#", " ", "T", "i", "t", "l", "e", "\n", "\n",
                   "a", "t", " ", "a", "t", " ", "a", "t", "\n">>

\* the sheet has no cell with anything but white space in it
C18_NoData(rs) ==
  \A r \in 1..Len(rs) : \A c \in 1..Len(rs[r]) : rs[r][c] \in {"", " "}

C18_Heading(k) == <<"## Sheet: ", SheetName(k)>>

C18_Text(k) ==
  <<"## Sheet: ", SheetName(k), "\n", "\n", "_(No data)_", "\n">>

\* where the part of sheet k starts in out_lines, and where the next one does
C18_From(out, k) == CHOOSE i \in 1..Len(out) : out[i] = C18_Heading(k)

C18_Until(out, k, n) == IF k = n THEN Len(out) + 1 ELSE C18_From(out, k + 1)

\* C18: a sheet with zero non-blank cells renders exactly as
\* `## Sheet: <name>\n\n_(No data)_\n`: these are the lines the sheet adds to
\* the output, joined, and the text stands in the content between the
\* newline that ends what precedes it and the next sheet or the end
C18_EmptySheet ==
  (fn = "xlsx.main" /\ fpc = 1) =>
    \A k \in 1..Len(arg) :
      C18_NoData(arg[k]) =>
        LET out == ret[1].out_lines
            part == SubSeq(out, C18_From(out, k), C18_Until(out, k, Len(arg)) - 1)
        IN /\ part = <<C18_Heading(k), <<>>, <<"_(No data)_">>, <<>>>>
           /\ IF k = Len(arg)
              THEN C19_EndsWith(ret[1].content, <<"\n">> \o C18_Text(k))
              ELSE C19_Contains(ret[1].content,
                                <<"\n">> \o C18_Text(k) \o <<"\n">>
                                \o C18_Heading(k + 1))

C18_Witness ==
  /\ fn = "xlsx.main"
  /\ fpc = 1
  /\ arg = << << <<" ">>, <<"", " ">> >> >>
  /\ ret[1].content = <<"\n", "## Sheet: ", "S1", "\n", "\n", "_(No data)_", "\n">>

\* never more than one message in the queue, and none left or added once the
\* parent has taken one
C20_State ==
  /\ Len(rQ.items) <= 1
  /\ result # NoResult => rQ.items = <<>>

\* a message is put only by the worker of the current call, which has put
\* nothing before; the parent takes a message only when it has taken none
C20_Step ==
  /\ Len(rQ'.items) > Len(rQ.items) =>
       /\ rQ.items = <<>>
       /\ result = NoResult
       /\ extout[idx] = NoResult
       /\ rQ'.items[1].kind \in {"text", "err"}
  /\ (result' # result /\ result' # NoResult) =>
       /\ result = NoResult
       /\ rQ.items = <<result'>>

\* C20: between the start of a worker and the end of its job the queue gets
\* at most one message from it, the text or one error marker and never both,
\* and the parent gets from the queue at most once
C20_OneMessageOneGet == [](C20_State) /\ [][C20_Step]_vars

C20_Witness ==
  /\ hpc = "returned"
  /\ result.kind = "text"
  /\ rQ.items = <<>>
  /\ proc[idx].st = "exited"
  /\ idx = 2

\* =========================================================== claims C21-C30
C21_InBot(ln) == ln.y1 * 100 >= 88 * 100

\* how many lines of the zone have the normalized text
C21_Tally(doc, norm, top) ==
  Cardinality({pk \in (1..Len(doc)) \X (1..3) :
                 /\ pk[2] <= Len(doc[pk[1]])
                 /\ normalize_for_repeat(doc[pk[1]][pk[2]].plain) = norm
                 /\ IF top THEN C16_InTop(doc[pk[1]][pk[2]])
                    ELSE C21_InBot(doc[pk[1]][pk[2]])})

C21_Needed(n) == IF (n + 1) \div 2 > 2 THEN (n + 1) \div 2 ELSE 2

\* C21: with at least 3 processed pages a line in the header zone is dropped
\* if and only if its normalized text is in the header-zone tally at least
\* max(2, ceil(0.5 * pageCount)) times, and the same for the footer zone
C21_DroppedIffTallied ==
  (fn = "pdf_to_markdown" /\ fpc = 1 /\ arg \in TallyDocs) =>
    \A pi \in 1..Len(arg) : \A k \in 1..Len(arg[pi]) :
      LET ln == arg[pi][k]
          norm == normalize_for_repeat(ln.plain)
      IN /\ C16_InTop(ln) =>
              (~C16_Shown(ret[1].out_lines, pi, ln)
                 <=> C21_Tally(arg, norm, TRUE) >= C21_Needed(Len(arg)))
         /\ C21_InBot(ln) =>
              (~C16_Shown(ret[1].out_lines, pi, ln)
                 <=> C21_Tally(arg, norm, FALSE) >= C21_Needed(Len(arg)))

\* the lines of the written text: the final rstrip drops the blank lines that
\* end out_lines
C22_Written ==
  SubSeq(out_lines, 1,
         IF \E n \in 1..Len(out_lines) : ~out_lines[n].empty
         THEN CHOOSE n \in 1..Len(out_lines) :
                /\ ~out_lines[n].empty
                /\ \A m \in (n + 1)..Len(out_lines) : out_lines[m].empty
         ELSE 0)

\* C22: the text written by the word-processing extractor never holds two
\* consecutive blank lines (a heading or a table, a table with no rows
\* included, has exactly one blank line before and after it)
C22_NoTwoBlankLines ==
  (unit = "docx" /\ upc = "done") =>
    \A n \in 1..(Len(C22_Written) - 1) :
      ~(C22_Written[n].empty /\ C22_Written[n + 1].empty)

C23_Blank(r) == \A k \in 1..Len(r) : r[k] \in {"", " "}

C23_Normal(rs) == [k \in 1..Len(rs) |-> C14_Filled(rs[k], C14_Widest(rs))]

\* the lines are a header, a separator of --- per column and the body rows
C23_Table(out, hdr, bdy) ==
  /\ Len(out) = 2 + Len(bdy)
  /\ C14_Cells(out[1]) = hdr
  /\ C14_Cells(out[2]) = [k \in 1..Len(hdr) |-> "---"]
  /\ \A k \in 1..Len(bdy) : C14_Cells(out[k + 2]) = bdy[k]

\* the header rule: the first row when the flag is set and the row is not
\* blank, else Column 1 .. Column N over all the rows
C23_Rule(out, rs, headerFlag) ==
  LET norm == C23_Normal(rs)
  IN IF headerFlag /\ ~C23_Blank(norm[1])
     THEN C23_Table(out, norm[1], Tail(norm))
     ELSE C23_Table(out, [k \in 1..C14_Widest(rs) |-> ColumnName(k)], norm)

C23_Applied ==
  /\ fn \in TableFns
  /\ fpc = 1
  /\ arg.rows # <<>>
  /\ C14_Widest(arg.rows) > 0

\* C23: every table renderer takes the first row as header when the header
\* flag is set and the row has a non-blank cell, and else writes the header
\* Column 1 .. Column N and all rows as body; the output is one header line,
\* one separator line and one line per body row
C23_HeaderRuleEverywhere ==
  C23_Applied => C23_Rule(ret[1], arg.rows, arg.header)

\* C23 amended: the rule holds in the spreadsheet and the slide-deck
\* renderer; the word-processing renderer always takes the first row as
\* header, a blank one too
C23_HeaderRule ==
  C23_Applied =>
    IF fn = "docx.table_to_markdown"
    THEN C23_Table(ret[1], C23_Normal(arg.rows)[1], Tail(C23_Normal(arg.rows)))
    ELSE C23_Rule(ret[1], arg.rows, arg.header)

C23_Witness ==
  /\ fn = "xlsx.rows_to_markdown"
  /\ fpc = 1
  /\ arg.header
  /\ arg.rows = << <<"", " ">>, <<"x", "x">> >>
  /\ Len(ret[1]) = 4
  /\ ret[1][1] = <<"| ", "Column 1", " | ", "Column 2", " |">>

\* how many times the token stands in the text
C24_Count(t, tok) ==
  Cardinality({k \in 1..(Len(t) - Len(tok) + 1) : SubSeq(t, k, k + Len(tok) - 1) = tok})

\* every line break of the text stands between two other characters
C24_Embedded(t) ==
  \A k \in 1..Len(t) :
    t[k] = NL => k > 1 /\ k < Len(t) /\ t[k - 1] # NL /\ t[k + 1] # NL

\* C24: in a rendered table cell of any of the three extractors every line
\* break embedded in the source cell text stands as the token <br>, unaltered
\* by the escaping, and the cell holds no line break
C24_NewlineIsBr ==
  (fn \in CellFns /\ fpc = 1 /\ arg.url = <<>> /\ C24_Embedded(arg.text)) =>
    /\ \A k \in 1..Len(ret[1]) : ret[1][k] # NL
    /\ C24_Count(ret[1], BR) = C24_Count(arg.text, <<NL>>)

\* the underlying cells of the table
C25_CellsOf(grid) == UNION { {grid[r][k] : k \in 1..Len(grid[r])} : r \in 1..Len(grid) }

\* how many cells of the rendered lines hold the text
C25_Times(out, text) ==
  Cardinality({p \in (1..Len(out)) \X (1..3) :
                 /\ p[2] <= Len(C14_Cells(out[p[1]]))
                 /\ C14_Cells(out[p[1]])[p[2]] = text})

\* C25: the content of every cell of a word-processing table, merged
\* horizontally or vertically, stands exactly once in the rendered table
C25_MergedOnce ==
  (fn = "docx.table_merged" /\ fpc = 1) =>
    \A c \in C25_CellsOf(arg.grid) : C25_Times(ret[1], CellName(c)) = 1

\* the rows with a non-blank cell, and the columns with one in any row
C26_FilledRows(rs) == {r \in 1..Len(rs) : ~C23_Blank(rs[r])}

C26_FilledCols(rs) ==
  {c \in 1..3 : \E r \in 1..Len(rs) : c <= Len(rs[r]) /\ rs[r][c] \notin {"", " "}}

C26_Least(S) == CHOOSE x \in S : \A y \in S : x <= y

\* C26: the rows from the first to the last non-blank row, in order and the
\* blank rows between them included, each cut or filled to the last non-blank
\* column of the whole grid; no non-blank cell is lost, the last column holds
\* a non-blank cell, and a grid without a non-blank cell gives the empty list
C26_Cropped ==
  (fn = "crop_rows_and_cols" /\ fpc = 1) =>
    LET rs == arg.rows
        out == ret[1]
    IN IF C26_FilledRows(rs) = {} THEN out = <<>>
       ELSE LET first == C26_Least(C26_FilledRows(rs))
                last == Max(C26_FilledRows(rs))
                w == Max(C26_FilledCols(rs))
            IN /\ Len(out) = last - first + 1
               /\ \A k \in 1..Len(out) :
                    /\ out[k].src = first + k - 1
                    /\ out[k].cells = C14_Filled(rs[first + k - 1], w)
               /\ \A r \in 1..Len(rs) : \A c \in 1..Len(rs[r]) :
                    rs[r][c] \notin {"", " "} =>
                      /\ r \in first..last
                      /\ c <= w
                      /\ out[r - first + 1].cells[c] = rs[r][c]
               /\ \E k \in 1..Len(out) : out[k].cells[w] \notin {"", " "}

C26_Witness ==
  /\ fn = "crop_rows_and_cols"
  /\ fpc = 1
  /\ arg.rows = << <<"x">>, <<" ">>, <<"", "x">> >>
  /\ ret[1] = << [src |-> 1, cells |-> <<"x", "">>],
                 [src |-> 2, cells |-> <<" ", "">>],
                 [src |-> 3, cells |-> <<"", "x">>] >>

\* how many characters stand before span i in the concatenation of the texts
RECURSIVE C27_Before(_, _)
C27_Before(spans, i) ==
  IF i <= 1 THEN 0 ELSE C27_Before(spans, i - 1) + Len(spans[i - 1].text)

\* the characters of span i that are not among the first k of the whole
C27_Rest(spans, i, k) ==
  LET gone == k - C27_Before(spans, i)
  IN IF gone <= 0 THEN spans[i].text
     ELSE SubSeq(spans[i].text, gone + 1, Len(spans[i].text))

\* C27: the rendering is that of the characters left after the first k of
\* the concatenated span texts are removed, every span's rest in the bold
\* and italic style of its span; with k = 0 every span is rendered in full
C27_SkipAcrossSpans ==
  (fn = "render_spans_from_offset" /\ fpc = 1) =>
    ret[1] = Concat([i \in 1..Len(arg.spans) |->
                       render_span_to_md(C27_Rest(arg.spans, i, arg.skip_chars),
                                         arg.spans[i].bold, arg.spans[i].italic)])

C27_Witness ==
  /\ fn = "render_spans_from_offset"
  /\ fpc = 1
  /\ arg.skip_chars = 2
  /\ arg.spans = << [text |-> <<"a">>, bold |-> FALSE, italic |-> FALSE],
                    [text |-> <<"b", "*">>, bold |-> TRUE, italic |-> FALSE] >>
  /\ ret[1] = <<"*", "*", "\\", "*", "*", "*">>

\* C28: a spreadsheet cell with a hyperlink stands in the table as
\* [escaped-text](url): the url character for character as the cell's target,
\* and every pipe of the cell text behind exactly one backslash
C28_LinkCell ==
  (fn = "xlsx.table_cell" /\ fpc = 1 /\ arg.url # <<>>) =>
    ret[1] = <<"[">>
             \o ReplaceChar(ReplaceChar(arg.text, NL, BR), "|", <<"\\", "|">>)
             \o <<"]", "(">> \o arg.url \o <<")">>

\* in the text every star, and with pipes every pipe too, stands behind
\* exactly one backslash
C30_OneBackslash(t, pipes) ==
  \A k \in 1..Len(t) :
    (t[k] = "*" \/ (pipes /\ t[k] = "|")) =>
      /\ k > 1
      /\ t[k - 1] = "\\"
      /\ (k > 2 => t[k - 2] # "\\")

\* C30: a piece of source text of the word-processing or slide-deck extractor
\* is escaped exactly once wherever it is written (paragraph, list item,
\* table cell, subtitle, notes): each of its special characters stands behind
\* exactly one backslash, never three
C30_EscapedOnce ==
  (fn \in PieceFns \ {"xlsx.table_cell"} /\ fpc = 1) =>
    C30_OneBackslash(ret[1], fn \in CellFns)

\* C29: when multiProcessStarter returns or raises, the worker it started
\* has exited (and join has returned), on every path; no worker is alive
\* after the call that created it
C29_NoWorkerOutlivesCall ==
  \A i \in Jobs :
    (i < idx \/ (i = idx /\ hpc \in {"returned", "raised"}) \/ opc = "raised")
      => ~IsAlive(proc[i])

====
